---- MODULE Spec2Model ----
(***************************************************************************)
(* A model of pyxsim's photon projection (PhotonList.project_photons,      *)
(* src/pyxsim/photon_list.py) and of the EventList container               *)
(* (src/photon_simulator/event_list.py).                                   *)
(*                                                                         *)
(* Numbers.  Floating point values are modelled exactly:                   *)
(*   - a rational is a pair <<n, d>> in lowest terms with d > 0;           *)
(*   - a redshift z is held as the integer 2*z (halves), so that           *)
(*     1 + z = (2 + zh) / 2;                                               *)
(*   - lengths (positions, widths) are integers in units of 1/10 of the    *)
(*     smallest cell, pixel coordinates are integers in 1/10 pixel;        *)
(*   - velocities are integers in units of clight / 5;                     *)
(*   - unit vectors are integer vectors in fifths.                         *)
(* Python sequences are 0-based; At(s, i) reads the python element s[i].   *)
(***************************************************************************)
EXTENDS Integers, Sequences, FiniteSets, TLC

\* ---------------------------------------------------------------- bounds
MaxCells == 3      \* emitters in a photon file
MaxPerCell == 2    \* photons of one emitter
MaxPhotons == 3    \* photons in a photon file
MaxSize == 2       \* workers of the communicator

\* ------------------------------------------------------- generic helpers
None == [tag |-> "None"]
Num(v) == [tag |-> "num", v |-> v]
IsNone(o) == o.tag = "None"

At(s, i) == s[i + 1]

RECURSIVE SumSeq(_)
SumSeq(s) == IF Len(s) = 0 THEN 0 ELSE Head(s) + SumSeq(Tail(s))

\* python slice s[a:b] of a sequence
Slice(s, a, b) == [k \in 1..(IF b > a THEN b - a ELSE 0) |-> s[a + k]]

\* numpy fancy indexing s[idx] with an index array: a new array
Take(s, idx) == [k \in 1..Len(idx) |-> At(s, idx[k])]

\* numpy boolean-mask indexing s[mask]: the entries whose mask is TRUE, in order
RECURSIVE MaskSelect(_, _)
MaskSelect(s, mask) ==
    IF Len(s) = 0 THEN <<>>
    ELSE IF Head(mask) THEN <<Head(s)>> \o MaskSelect(Tail(s), Tail(mask))
         ELSE MaskSelect(Tail(s), Tail(mask))

Abs(n) == IF n < 0 THEN -n ELSE n

RECURSIVE GCD(_, _)
GCD(a, b) == IF b = 0 THEN a ELSE GCD(b, a % b)

\* rationals in lowest terms
Rat(n, d) ==
    LET g == GCD(Abs(n), Abs(d))
        s == IF d < 0 THEN -1 ELSE 1
    IN  <<(s * n) \div g, (s * d) \div g>>
RInt(n) == <<n, 1>>
RMul(a, b) == Rat(a[1] * b[1], a[2] * b[2])
RLt(a, b) == a[1] * b[2] < b[1] * a[2]
RLe(a, b) == a[1] * b[2] <= b[1] * a[2]
RAdd(a, b) == Rat(a[1] * b[2] + b[1] * a[2], a[2] * b[2])
RSub(a, b) == Rat(a[1] * b[2] - b[1] * a[2], a[2] * b[2])
RDiv(a, b) == Rat(a[1] * b[2], a[2] * b[1])
\* floor of a non-negative rational (the truncation np.uint64 performs)
RFloor(a) == a[1] \div a[2]

\* integer square root, and the root of a rational whose terms are squares
ISqrt(n) == CHOOSE k \in 0..n : k * k <= n /\ n < (k + 1) * (k + 1)
RSqrt(a) == <<ISqrt(a[1]), ISqrt(a[2])>>

Dot(u, v) == u[1] * v[1] + u[2] * v[2] + u[3] * v[3]

Perms(n) ==
    {p \in [1..n -> 0..(n - 1)] : \A i, j \in 1..n : i # j => p[i] # p[j]}

\* ------------------------------------------------- program constants
\* speed of light, in the model's velocity unit
clight == 5

\* axes_lookup: the two image axes for a principal-axis normal (1=x, 2=y, 3=z)
axes_lookup(ax) ==
    CASE ax = "x" -> <<2, 3>>
      [] ax = "y" -> <<3, 1>>
      [] ax = "z" -> <<1, 2>>
AxisIndex(ax) == CASE ax = "x" -> 1 [] ax = "y" -> 2 [] ax = "z" -> 3

\* --------------------------------------------------------- PhotonList
\* np.cumsum
RECURSIVE CumSumFrom(_, _)
CumSumFrom(s, acc) ==
    IF Len(s) = 0 THEN <<>>
    ELSE <<acc + Head(s)>> \o CumSumFrom(Tail(s), acc + Head(s))
CumSum(s) == CumSumFrom(s, 0)

\* PhotonList.__init__: num_cells and the cumulative index p_bins
PhotonList(photons, parameters) ==
    [photons |-> photons,
     parameters |-> parameters,
     num_cells |-> Len(photons.x),
     p_bins |-> <<0>> \o CumSum(photons.NumberOfPhotons)]

\* from_file with emitter ranges of num_cells // size emitters each, the
\* remainder left out
from_file_without_remainder(f, rank, sz) ==
    LET per == Len(f.d.x) \div sz
        start_c == rank * per
        end_c == (rank + 1) * per
        n_ph == f.d.num_photons
        start_e == IF rank = 0 THEN 0 ELSE SumSeq(Slice(n_ph, 0, start_c))
        end_e == start_e + SumSeq(Slice(n_ph, start_c, end_c))
    IN  PhotonList([x |-> Slice(f.d.x, start_c, end_c),
                    y |-> Slice(f.d.y, start_c, end_c),
                    z |-> Slice(f.d.z, start_c, end_c),
                    dx |-> Slice(f.d.dx, start_c, end_c),
                    vx |-> Slice(f.d.vx, start_c, end_c),
                    vy |-> Slice(f.d.vy, start_c, end_c),
                    vz |-> Slice(f.d.vz, start_c, end_c),
                    NumberOfPhotons |-> Slice(n_ph, start_c, end_c),
                    Energy |-> Slice(f.d.energy, start_e, end_e)],
                   f.p)

\* PhotonList.from_file on worker rank of a communicator of sz workers:
\* f is the content of the HDF5 file (f.p its parameters, f.d its data)
from_file(f, rank, sz) ==
    LET num_cells == Len(f.d.x)
        start_c == (rank * num_cells) \div sz
        end_c == ((rank + 1) * num_cells) \div sz
        n_ph == f.d.num_photons
        start_e == IF rank = 0 THEN 0 ELSE SumSeq(Slice(n_ph, 0, start_c))
        end_e == start_e + SumSeq(Slice(n_ph, start_c, end_c))
        photons ==
            [x |-> Slice(f.d.x, start_c, end_c),
             y |-> Slice(f.d.y, start_c, end_c),
             z |-> Slice(f.d.z, start_c, end_c),
             dx |-> Slice(f.d.dx, start_c, end_c),
             vx |-> Slice(f.d.vx, start_c, end_c),
             vy |-> Slice(f.d.vy, start_c, end_c),
             vz |-> Slice(f.d.vz, start_c, end_c),
             NumberOfPhotons |-> Slice(n_ph, start_c, end_c),
             Energy |-> Slice(f.d.energy, start_e, end_e)]
    IN  PhotonList(photons, f.p)

\* ------------------------------------------------------- collaborators
\* Orientation(L).unit_vectors (yt): east, north and normal unit vectors, in
\* fifths, for a normal L and no north vector
Cross(u, v) ==
    <<u[2] * v[3] - u[3] * v[2], u[3] * v[1] - u[1] * v[3],
      u[1] * v[2] - u[2] * v[1]>>
Normalize5(v) == [i \in 1..3 |-> (5 * v[i]) \div ISqrt(Dot(v, v))]
Identity3 == <<(<<1, 0, 0>>), (<<0, 1, 0>>), (<<0, 0, 1>>)>>
Orientation(L) ==
    LET normal_vector == Normalize5(L)
        t == [i \in 1..3 |->
                 LET c == Cross(normal_vector, Identity3[i])
                 IN  c[1] + c[2] + c[3]]
        ax == CHOOSE i \in 1..3 :
                  /\ \A j \in 1..3 : t[j] <= t[i]
                  /\ \A j \in 1..(i - 1) : t[j] < t[i]
        east_vector == Cross(Identity3[ax], normal_vector)
        north_vector == Cross(normal_vector, east_vector)
    IN  <<Normalize5(east_vector), Normalize5(north_vector), normal_vector>>

\* cosmo.angular_diameter_distance(0, z) (yt), for the redshift zh / 2
angular_diameter_distance(zh) == zh + 1

\* np.interp(x, xp, fp, left=0.0, right=0.0) at the rational x
interp(x, xp, fp) ==
    LET n == Len(xp)
    IN  IF RLt(x, RInt(xp[1])) THEN RInt(0)
        ELSE IF RLt(RInt(xp[n]), x) THEN RInt(0)
        ELSE IF x = RInt(xp[n]) THEN RInt(fp[n])
        ELSE LET j == CHOOSE k \in 1..(n - 1) :
                          RLe(RInt(xp[k]), x) /\ RLt(x, RInt(xp[k + 1]))
                 slope == Rat(fp[j + 1] - fp[j], xp[j + 1] - xp[j])
             IN  RAdd(RInt(fp[j]), RMul(slope, RSub(x, RInt(xp[j]))))

\* aspec.max()
RECURSIVE MaxSeq(_)
MaxSeq(s) ==
    IF Len(s) = 1 THEN s[1]
    ELSE LET m == MaxSeq(Tail(s)) IN IF Head(s) >= m THEN Head(s) ELSE m

\* np.searchsorted(a, v, side='right'): binary search for the first index
\* whose element is greater than v
RECURSIVE BisectRight(_, _, _, _)
BisectRight(a, v, lo, hi) ==
    IF lo >= hi THEN lo
    ELSE LET mid == (lo + hi) \div 2
         IN  IF At(a, mid) <= v THEN BisectRight(a, v, mid + 1, hi)
             ELSE BisectRight(a, v, lo, mid)
\* mutant: side='left', the first index whose element is not less than v
RECURSIVE BisectLeft(_, _, _, _)
BisectLeft(a, v, lo, hi) ==
    IF lo >= hi THEN lo
    ELSE LET mid == (lo + hi) \div 2
         IN  IF At(a, mid) < v THEN BisectLeft(a, v, mid + 1, hi)
             ELSE BisectLeft(a, v, lo, mid)
searchsorted_left(a, v) == BisectLeft(a, v, 0, Len(a))

searchsorted_right(a, v) == BisectRight(a, v, 0, Len(a))

\* ------------------------------------------- project_photons: rescaling
\* pl is the PhotonList, a the arguments of the call.  The overrides are
\* taken in their default units (s, cm**2, Mpc).
n_ph_tot(pl) == SumSeq(pl.photons.NumberOfPhotons)

NoOverride(a) ==
    /\ IsNone(a.exp_time_new) /\ IsNone(a.area_new)
    /\ IsNone(a.redshift_new) /\ IsNone(a.dist_new)

Tratio(pl, a) ==
    IF IsNone(a.exp_time_new) THEN RInt(1)
    ELSE Rat(a.exp_time_new.v, pl.parameters.FiducialExposureTime)

\* area_new after the rebinding "area_new = arf.max_area"
area_new_value(a) ==
    IF a.area_new.tag = "arf" THEN Num(a.area_new.max_area) ELSE a.area_new

Aratio(pl, a) ==
    IF IsNone(a.area_new) THEN RInt(1)
    ELSE Rat(area_new_value(a).v, pl.parameters.FiducialArea)

zobs(pl, a) ==
    IF IsNone(a.redshift_new) /\ IsNone(a.dist_new)
    THEN pl.parameters.FiducialRedshift
    ELSE IF IsNone(a.redshift_new) THEN 0 ELSE a.redshift_new.v

D_A(pl, a) ==
    IF IsNone(a.redshift_new) /\ IsNone(a.dist_new)
    THEN pl.parameters.FiducialAngularDiameterDistance
    ELSE IF IsNone(a.redshift_new) THEN a.dist_new.v
         ELSE angular_diameter_distance(a.redshift_new.v)

\* mutant: the energies rescaled to redshift 0 when only dist_new is given
scale_factor_with_distance(pl, a) ==
    IF IsNone(a.redshift_new) /\ IsNone(a.dist_new) THEN RInt(1)
    ELSE Rat(2 + pl.parameters.FiducialRedshift, 2 + zobs(pl, a))

scale_factor(pl, a) ==
    IF IsNone(a.redshift_new) THEN RInt(1)
    ELSE Rat(2 + pl.parameters.FiducialRedshift, 2 + a.redshift_new.v)

Cube(n) == n * n * n

Dratio(pl, a) ==
    IF IsNone(a.redshift_new) /\ IsNone(a.dist_new) THEN RInt(1)
    ELSE LET D_A0 == pl.parameters.FiducialAngularDiameterDistance
             zobs0 == pl.parameters.FiducialRedshift
         IN  Rat(D_A0 * D_A0 * Cube(2 + zobs0),
                 D_A(pl, a) * D_A(pl, a) * Cube(2 + zobs(pl, a)))

\* mutant: the distance ratio left out of the product
fak_without_distance(pl, a) == RMul(Aratio(pl, a), Tratio(pl, a))

fak(pl, a) == RMul(RMul(Aratio(pl, a), Tratio(pl, a)), Dratio(pl, a))

\* a test on the worker's own count: "n_ph_tot*fak > n_ph_tot", which a
\* worker without photons passes
BudgetExceeded_by_count(pl, a) ==
    /\ ~NoOverride(a)
    /\ RLt(RInt(n_ph_tot(pl)), RMul(RInt(n_ph_tot(pl)), fak(pl, a)))

\* the test "fak > 1" that raises ValueError
BudgetExceeded(pl, a) == ~NoOverride(a) /\ RLt(RInt(1), fak(pl, a))

\* mutant: the target count rounded to nearest instead of truncated
my_n_obs_rounded(pl, a) ==
    IF NoOverride(a) THEN n_ph_tot(pl)
    ELSE RFloor(RAdd(RMul(RInt(n_ph_tot(pl)), fak(pl, a)), Rat(1, 2)))

my_n_obs(pl, a) ==
    IF NoOverride(a) THEN n_ph_tot(pl)
    ELSE RFloor(RMul(RInt(n_ph_tot(pl)), fak(pl, a)))

\* parameters["ARF"], parameters["RMF"] set while rescaling
arf_parameters(a) ==
    IF a.area_new.tag # "arf" THEN <<>>
    ELSE IF a.area_new.has_rmffile
         THEN [k \in {"ARF", "RMF"} |->
                  IF k = "ARF" THEN a.area_new.filename
                  ELSE a.area_new.rmffile]
         ELSE [k \in {"ARF"} |-> a.area_new.filename]

\* ------------------------------------------ project_photons: sampling
arange(n) == [k \in 1..n |-> k - 1]

\* idxs, from the permutation perm the generator returns when asked
DrawsPermutation(pl, a) == my_n_obs(pl, a) # n_ph_tot(pl)
\* mutant: the permutation used also when every photon is kept
select_idxs_always_permuted(pl, a, perm) == Slice(perm, 0, my_n_obs(pl, a))

\* mutant: the first index of the permutation taken for every photon kept
select_idxs_with_replacement(pl, a, perm) ==
    IF my_n_obs(pl, a) = n_ph_tot(pl) THEN arange(my_n_obs(pl, a))
    ELSE [k \in 1..my_n_obs(pl, a) |-> perm[1]]

select_idxs(pl, a, perm) ==
    IF my_n_obs(pl, a) = n_ph_tot(pl) THEN arange(my_n_obs(pl, a))
    ELSE Slice(perm, 0, my_n_obs(pl, a))

obs_cells_of(p_bins, idxs) ==
    [k \in 1..Len(idxs) |-> searchsorted_right(p_bins, idxs[k]) - 1]

\* ---------------------------------------- project_photons: projection
\* generator draws: a raw draw is 0 or 1; uniform(-0.5, 0.5) is (raw-1)/2
\* and normal(0, 1) is 2*raw-1
offset_of(pl, raw, delta) ==
    IF pl.parameters.DataType = "cells" THEN ((raw - 1) * delta) \div 2
    ELSE (2 * raw - 1) * delta

\* candidate sky-plane positions <<xsky, ysky>>; raw[i] is the i-th draw
sky_positions(pl, a, obs_cells, raw) ==
    LET n == Len(obs_cells)
        delta == Take(pl.photons.dx, obs_cells)
        pos == <<pl.photons.x, pl.photons.y, pl.photons.z>>
    IN  IF a.normal.tag = "axis"
        THEN LET ax == axes_lookup(a.normal.ax)
             IN  <<[k \in 1..n |-> offset_of(pl, raw[1][k], delta[k])
                                     + At(pos[ax[1]], obs_cells[k])],
                   [k \in 1..n |-> offset_of(pl, raw[2][k], delta[k])
                                     + At(pos[ax[2]], obs_cells[k])]>>
        ELSE LET orient == Orientation(a.normal.L)
                 x_hat == orient[1]
                 y_hat == orient[2]
                 p == [k \in 1..n |->
                          <<offset_of(pl, raw[1][k], delta[k])
                              + At(pos[1], obs_cells[k]),
                            offset_of(pl, raw[2][k], delta[k])
                              + At(pos[2], obs_cells[k]),
                            offset_of(pl, raw[3][k], delta[k])
                              + At(pos[3], obs_cells[k])>>]
             IN  <<[k \in 1..n |-> Dot(p[k], x_hat) \div 5],
                   [k \in 1..n |-> Dot(p[k], y_hat) \div 5]>>

\* number of position draws the projection asks of the generator
PositionDraws(a) == IF a.normal.tag = "axis" THEN 2 ELSE 3

\* ------------------------------------------------ project_photons: Doppler
\* vz per emitter: line-of-sight velocity, a rational in the velocity unit
vz_of(pl, a) ==
    LET vel == <<pl.photons.vx, pl.photons.vy, pl.photons.vz>>
    IN  IF a.normal.tag = "axis"
        THEN [i \in 1..pl.num_cells |-> RInt(vel[AxisIndex(a.normal.ax)][i])]
        ELSE LET z_hat == Orientation(a.normal.L)[3]
             IN  [i \in 1..pl.num_cells |->
                     Rat(vel[1][i] * z_hat[1] + vel[2][i] * z_hat[2]
                           + vel[3][i] * z_hat[3], 5)]

\* mutant: the sign of vz kept
shift_of_without_negation(vz) ==
    LET shift == RDiv(vz, RInt(clight))
    IN  RSqrt(RDiv(RSub(RInt(1), shift), RAdd(RInt(1), shift)))

\* shift = -vz/clight; shift = sqrt((1-shift)/(1+shift))
shift_of(vz) ==
    LET shift == RMul(RInt(-1), RDiv(vz, RInt(clight)))
    IN  RSqrt(RDiv(RSub(RInt(1), shift), RAdd(RInt(1), shift)))

\* mutant: the Doppler shift applied whatever no_shifting says
eobs_of_always_shifted(pl, a, idxs, obs_cells) ==
    LET rest == Take(pl.photons.Energy, idxs)
        shift == [i \in 1..pl.num_cells |-> shift_of(vz_of(pl, a)[i])]
    IN  [k \in 1..Len(idxs) |->
            RMul(RMul(RInt(rest[k]), At(shift, obs_cells[k])),
                 scale_factor(pl, a))]

eobs_of(pl, a, idxs, obs_cells) ==
    LET rest == Take(pl.photons.Energy, idxs)
        shifted ==
            IF a.no_shifting THEN [k \in 1..Len(idxs) |-> RInt(rest[k])]
            ELSE LET shift == [i \in 1..pl.num_cells |->
                                  shift_of(vz_of(pl, a)[i])]
                 IN  [k \in 1..Len(idxs) |->
                         RMul(RInt(rest[k]), At(shift, obs_cells[k]))]
    IN  [k \in 1..Len(idxs) |-> RMul(shifted[k], scale_factor(pl, a))]

\* "eobs *= scale_factor" as it would act on the PhotonList if eobs were a
\* view of the Energy array: the energies at idxs scaled in place
Energy_scaled_in_place(pl, a, idxs) ==
    [k \in 1..Len(pl.photons.Energy) |->
        IF \E n \in 1..Len(idxs) : idxs[n] = k - 1
        THEN RFloor(RMul(RInt(pl.photons.Energy[k]), scale_factor(pl, a)))
        ELSE pl.photons.Energy[k]]

\* the Energy array of the PhotonList after "eobs *= scale_factor": eobs is
\* Energy[idxs] with an index array, or a product with shift, either a new
\* array, so the multiplication in place writes to eobs alone
Energy_after_scaling(pl, a, idxs) == pl.photons.Energy

\* -------------------------------------------- project_photons: attenuation
\* mutant: the draw compared with the curve without the factor aspec.max()
not_abs_of_unscaled(a, eobs, u) ==
    IF IsNone(a.absorb_model) THEN [k \in 1..Len(eobs) |-> TRUE]
    ELSE [k \in 1..Len(eobs) |->
             RLt(u[k], interp(eobs[k], a.absorb_model.emid,
                              a.absorb_model.aspec))]

\* not_abs, from the uniform draws u (rationals in [0, 1))
not_abs_of(a, eobs, u) ==
    IF IsNone(a.absorb_model) THEN [k \in 1..Len(eobs) |-> TRUE]
    ELSE LET emid == a.absorb_model.emid
             aspec == a.absorb_model.aspec
         IN  [k \in 1..Len(eobs) |->
                 LET absorb == interp(eobs[k], emid, aspec)
                     randvec == RMul(RInt(MaxSeq(aspec)), u[k])
                 IN  RLt(randvec, absorb)]

\* detected before the logical_and: det is the mask arf.detect_events returns
arf_detected_of(parameters, eobs, det) ==
    IF "ARF" \notin DOMAIN parameters THEN [k \in 1..Len(eobs) |-> TRUE]
    ELSE [k \in 1..Len(eobs) |-> det[k]]

\* mutant: either mask suffices
logical_or(m1, m2) == [k \in 1..Len(m1) |-> m1[k] \/ m2[k]]

logical_and(m1, m2) == [k \in 1..Len(m1) |-> m1[k] /\ m2[k]]

dx_min(pl) == pl.parameters.Width \div pl.parameters.Dimension

\* x/dx_min + 0.5*(nx+1), in tenths of a pixel
to_pix(pl, xs) ==
    [k \in 1..Len(xs) |->
        (10 * xs[k]) \div dx_min(pl) + 5 * (pl.parameters.Dimension + 1)]

\* an entry of an events dictionary: the key, the array and the units the
\* array carries ("none" for a plain ndarray)
Entry(key, v, units) == [k |-> key, v |-> v, units |-> units]

\* the local events dictionary, in insertion order
local_events(pl, xsky, ysky, eobs, detected) ==
    <<Entry("xpix", to_pix(pl, MaskSelect(xsky, detected)), "none"),
      Entry("ypix", to_pix(pl, MaskSelect(ysky, detected)), "none"),
      Entry("eobs", MaskSelect(eobs, detected), "keV")>>

\* ------------------------------------------------------------ EventList
\* EventList.__init__ for an events dictionary (a sequence of key/value
\* entries in insertion order) and a parameters dictionary
FieldOf(events, key) ==
    events[CHOOSE i \in 1..Len(events) : events[i].k = key].v
Keys(events) == {events[i].k : i \in 1..Len(events)}

EventList(events, parameters) ==
    [events |-> events,
     parameters |-> parameters,
     num_events |-> Len(FieldOf(events, "xpix")),
     wcs |-> [crpix |-> parameters["pix_center"],
              crval |-> parameters["sky_center"],
              cdelt |-> <<RMul(RInt(-1), parameters["dtheta"]),
                          parameters["dtheta"]>>]]

\* the parameters dictionary project_photons hands to EventList
event_parameters(pl, a) ==
    LET nx == pl.parameters.Dimension
        base ==
          [k \in {"ExposureTime", "Area", "Redshift",
                  "AngularDiameterDistance", "sky_center", "pix_center",
                  "dtheta"} |->
             CASE k = "ExposureTime" ->
                    IF IsNone(a.exp_time_new)
                    THEN pl.parameters.FiducialExposureTime
                    ELSE a.exp_time_new.v
               [] k = "Area" ->
                    IF IsNone(a.area_new) THEN pl.parameters.FiducialArea
                    ELSE area_new_value(a).v
               [] k = "Redshift" -> zobs(pl, a)
               [] k = "AngularDiameterDistance" -> D_A(pl, a)
               [] k = "sky_center" ->
                    IF IsNone(a.sky_center) THEN <<30, 45>>
                    ELSE a.sky_center.v
               [] k = "pix_center" -> <<5 * (nx + 1), 5 * (nx + 1)>>
               [] k = "dtheta" -> Rat(dx_min(pl), D_A(pl, a))]
    IN  arf_parameters(a) @@ base

\* ------------------------------------------------------------- state
VARIABLES
    size,           \* number of workers of the communicator
    plist,          \* plist[r]: the PhotonList of worker r
    plist0,         \* plist0[r]: the PhotonList as it was when the call began
    args,           \* the arguments of the project_photons call
    prng,           \* prng[r]: what worker r's generator returns when asked
    prng_calls,     \* prng_calls[r]: the generator calls made so far
    absorb_calls,   \* absorb_calls[r]: the calls made on the absorption model
    mylog,          \* mylog[r]: the log entries written so far
    pc,             \* pc[r]: where worker r stands in project_photons
    loc,            \* loc[r]: the local variables of the call
    comm,           \* the values handed to the two collectives
    result,         \* result[r]: the EventList returned, or None
    dict_order,     \* the order in which this interpreter iterates a dict
    disk,           \* the files on disk: a photon file, or event files
    evl,            \* the EventLists the program holds
    last            \* the last call on an EventList and its outcome

pvars == <<size, plist, plist0, args, prng, prng_calls, absorb_calls, mylog, pc,
           loc, comm, result>>

evars == <<dict_order, disk, evl, last>>

Ranks == 0..(size - 1)

\* comm.mpi_allreduce(my_n_obs): the sum over all workers
mpi_allreduce(buf) == SumSeq([k \in 1..size |-> buf[k - 1].v])

\* comm.par_combine_object(events, datatype="dict", op="cat"): every field
\* concatenated over the workers in rank order; the local dictionary as it
\* is when not parallel
\* a merge that hands every worker its own dictionary back
par_combine_object_local(buf, r) == buf[r].v

RECURSIVE CatRanks(_, _, _)
CatRanks(buf, key, r) ==
    IF r >= size THEN <<>>
    ELSE FieldOf(buf[r].v, key) \o CatRanks(buf, key, r + 1)
\* a merge whose result depends on the workers' progress: once a worker has
\* returned, the others are handed their own dictionary
par_combine_object_by_arrival(buf, r) ==
    IF size = 1 \/ \E q \in Ranks : pc[q] = "done" THEN buf[r].v
    ELSE [i \in 1..Len(buf[r].v) |->
             Entry(buf[r].v[i].k, CatRanks(buf, buf[r].v[i].k, 0),
                   buf[r].v[i].units)]
par_combine_object(buf, r) ==
    IF size = 1 THEN buf[r].v
    ELSE [i \in 1..Len(buf[r].v) |->
             Entry(buf[r].v[i].k, CatRanks(buf, buf[r].v[i].k, 0),
                   buf[r].v[i].units)]

BlankLocals ==
    [my_n_obs |-> 0, idxs |-> <<>>, obs_cells |-> <<>>, xsky |-> <<>>,
     ysky |-> <<>>, eobs |-> <<>>, not_abs |-> <<>>, detected |-> <<>>,
     events |-> <<>>]

\* no call on an EventList made yet
NoCall == [op |-> "none", args |-> <<>>, out |-> None]

\* a log entry of mylog
Log(msg, n) == [msg |-> msg, n |-> n]

\* -------------------------------------------------- project_photons steps
\* lines 491-566, the path that raises ValueError
RaiseBudget(r) ==
    /\ pc[r] = "begin"
    /\ BudgetExceeded(plist[r], args)
    /\ mylog' = [mylog EXCEPT ![r] =
           @ \o (IF ~IsNone(args.redshift_new) /\ ~IsNone(args.dist_new)
                 THEN <<Log("error: redshift or distance", 0)>> ELSE <<>>)
             \o (IF args.area_new.tag = "arf"
                 THEN <<Log("info: energy-dependent area", 0)>>
                 ELSE IF args.area_new.tag = "num"
                      THEN <<Log("info: constant area", 0)>> ELSE <<>>)]
    /\ pc' = [pc EXCEPT ![r] = "raised"]
    /\ UNCHANGED <<evars, size, plist, plist0, args, prng, prng_calls,
                   absorb_calls, loc, comm, result>>

\* lines 491-567, the path on which the budget check passes
Rescale(r) ==
    /\ pc[r] = "begin"
    /\ ~BudgetExceeded(plist[r], args)
    /\ mylog' = [mylog EXCEPT ![r] =
           @ \o (IF ~IsNone(args.redshift_new) /\ ~IsNone(args.dist_new)
                 THEN <<Log("error: redshift or distance", 0)>> ELSE <<>>)
             \o (IF args.area_new.tag = "arf"
                 THEN <<Log("info: energy-dependent area", 0)>>
                 ELSE IF args.area_new.tag = "num"
                      THEN <<Log("info: constant area", 0)>> ELSE <<>>)]
    /\ loc' = [loc EXCEPT ![r].my_n_obs = my_n_obs(plist[r], args)]
    /\ pc' = [pc EXCEPT ![r] = "allreduce"]
    /\ UNCHANGED <<evars, size, plist, plist0, args, prng, prng_calls,
                   absorb_calls, comm, result>>

\* line 569: the worker enters the global sum
EnterAllreduce(r) ==
    /\ pc[r] = "allreduce"
    /\ comm' = [comm EXCEPT !.allreduce[r] = Num(loc[r].my_n_obs)]
    /\ pc' = [pc EXCEPT ![r] = "in_allreduce"]
    /\ UNCHANGED <<evars, size, plist, plist0, args, prng, prng_calls,
                   absorb_calls, mylog, loc, result>>

\* a selection whose count is the globally summed count
Select_by_global_count(r) ==
    /\ pc[r] = "in_allreduce"
    /\ \A q \in Ranks : ~IsNone(comm.allreduce[q])
    /\ LET pl == plist[r]
           n_obs_all == mpi_allreduce(comm.allreduce)
           idxs == IF my_n_obs(pl, args) = n_ph_tot(pl)
                   THEN arange(n_ph_tot(pl))
                   ELSE Slice(prng[r].perm, 0,
                              IF n_obs_all < n_ph_tot(pl) THEN n_obs_all
                              ELSE n_ph_tot(pl))
       IN  /\ loc' = [loc EXCEPT ![r].idxs = idxs,
                                 ![r].obs_cells = obs_cells_of(pl.p_bins, idxs)]
           /\ prng_calls' = [prng_calls EXCEPT ![r] =
                  @ \o (IF DrawsPermutation(pl, args)
                        THEN <<"permutation">> ELSE <<>>)]
    /\ mylog' = [mylog EXCEPT ![r] =
           @ \o (IF r = 0
                 THEN <<Log("info: photons to use", mpi_allreduce(comm.allreduce))>>
                 ELSE <<>>)]
    /\ pc' = [pc EXCEPT ![r] = "project"]
    /\ UNCHANGED <<evars, size, plist, plist0, args, prng, absorb_calls, comm,
                   result>>

\* lines 569-578: the sum returns once every worker has entered; the photon
\* indices are selected and mapped to their emitters
Select(r) ==
    /\ pc[r] = "in_allreduce"
    /\ \A q \in Ranks : ~IsNone(comm.allreduce[q])
    /\ LET pl == plist[r]
           idxs == select_idxs(pl, args, prng[r].perm)
       IN  /\ loc' = [loc EXCEPT ![r].idxs = idxs,
                                 ![r].obs_cells = obs_cells_of(pl.p_bins, idxs)]
           /\ prng_calls' = [prng_calls EXCEPT ![r] =
                  @ \o (IF DrawsPermutation(pl, args)
                        THEN <<"permutation">> ELSE <<>>)]
    /\ mylog' = [mylog EXCEPT ![r] =
           @ \o (IF r = 0
                 THEN <<Log("info: photons to use", mpi_allreduce(comm.allreduce))>>
                 ELSE <<>>)]
    /\ pc' = [pc EXCEPT ![r] = "project"]
    /\ UNCHANGED <<evars, size, plist, plist0, args, prng, absorb_calls, comm,
                   result>>

\* lines 580-628: sky-plane positions and observed energies
Project(r) ==
    /\ pc[r] = "project"
    /\ LET pl == plist[r]
           sky == sky_positions(pl, args, loc[r].obs_cells, prng[r].raw)
           draw == IF pl.parameters.DataType = "cells" THEN "uniform"
                   ELSE "normal"
       IN  /\ loc' = [loc EXCEPT ![r].xsky = sky[1], ![r].ysky = sky[2],
                                 ![r].eobs = eobs_of(pl, args, loc[r].idxs,
                                                     loc[r].obs_cells)]
           /\ prng_calls' = [prng_calls EXCEPT ![r] =
                  @ \o [k \in 1..PositionDraws(args) |-> draw]]
           /\ plist' = [plist EXCEPT ![r].photons.Energy =
                  Energy_after_scaling(pl, args, loc[r].idxs)]
    /\ pc' = [pc EXCEPT ![r] = "attenuate"]
    /\ UNCHANGED <<evars, size, plist0, args, prng, absorb_calls, mylog, comm,
                   result>>

\* an absorption pass that leaves the model prepared
absorb_model_calls_without_cleanup(a) ==
    IF IsNone(a.absorb_model) THEN <<>>
    ELSE <<"prepare_spectrum", "get_spectrum">>

\* lines 630-640: the calls on the absorption model, in order
absorb_model_calls(a) ==
    IF IsNone(a.absorb_model) THEN <<>>
    ELSE <<"prepare_spectrum", "get_spectrum", "cleanup_spectrum">>

\* lines 630-657: absorption, detection and the local events dictionary
Attenuate(r) ==
    /\ pc[r] = "attenuate"
    /\ LET pl == plist[r]
           eobs == loc[r].eobs
           not_abs == not_abs_of(args, eobs, prng[r].u)
           parameters == arf_parameters(args)
           has_arf == "ARF" \in DOMAIN parameters
           detected == logical_and(not_abs,
                                   arf_detected_of(parameters, eobs, prng[r].det))
       IN  /\ loc' = [loc EXCEPT
                  ![r].not_abs = not_abs,
                  ![r].detected = detected,
                  ![r].events = local_events(pl, loc[r].xsky, loc[r].ysky,
                                             eobs, detected)]
           /\ prng_calls' = [prng_calls EXCEPT ![r] =
                  @ \o (IF IsNone(args.absorb_model) THEN <<>>
                        ELSE <<"uniform">>)
                    \o (IF has_arf THEN <<"detect_events">> ELSE <<>>)]
           /\ absorb_calls' = [absorb_calls EXCEPT ![r] =
                  @ \o absorb_model_calls(args)]
           /\ mylog' = [mylog EXCEPT ![r] =
                  @ \o (IF IsNone(args.absorb_model) THEN <<>>
                        ELSE <<Log("info: absorbing", 0)>>)
                    \o (IF has_arf THEN <<Log("info: applying area", 0)>> ELSE <<>>)]
    /\ pc' = [pc EXCEPT ![r] = "merge"]
    /\ UNCHANGED <<evars, size, plist, plist0, args, prng, comm, result>>

\* line 659: the worker enters the merge of the events dictionaries
EnterMerge(r) ==
    /\ pc[r] = "merge"
    /\ comm' = [comm EXCEPT !.merge[r] = [tag |-> "dict", v |-> loc[r].events]]
    /\ pc' = [pc EXCEPT ![r] = "in_merge"]
    /\ UNCHANGED <<evars, size, plist, plist0, args, prng, prng_calls,
                   absorb_calls, mylog, loc, result>>

\* a merge that does not block: the worker returns with the dictionaries
\* of the workers that have entered so far
Return_without_waiting(r) ==
    /\ pc[r] = "in_merge"
    /\ LET events == IF \A q \in Ranks : ~IsNone(comm.merge[q])
                     THEN par_combine_object(comm.merge, r)
                     ELSE comm.merge[r].v
       IN  /\ result' = [result EXCEPT ![r] =
                  [tag |-> "EventList",
                   v |-> EventList(events, event_parameters(plist[r], args))]]
           /\ mylog' = [mylog EXCEPT ![r] =
                  @ \o (IF r = 0
                        THEN <<Log("info: observed photons",
                                  Len(FieldOf(events, "xpix")))>>
                        ELSE <<>>)]
    /\ pc' = [pc EXCEPT ![r] = "done"]
    /\ UNCHANGED <<evars, size, plist, plist0, args, prng, prng_calls,
                   absorb_calls, loc, comm>>

\* lines 659-680: the merge returns once every worker has entered; the
\* EventList is built and returned
Return(r) ==
    /\ pc[r] = "in_merge"
    /\ \A q \in Ranks : ~IsNone(comm.merge[q])
    /\ LET events == par_combine_object(comm.merge, r)
       IN  /\ result' = [result EXCEPT ![r] =
                  [tag |-> "EventList",
                   v |-> EventList(events, event_parameters(plist[r], args))]]
           /\ mylog' = [mylog EXCEPT ![r] =
                  @ \o (IF r = 0
                        THEN <<Log("info: observed photons",
                                  Len(FieldOf(events, "xpix")))>>
                        ELSE <<>>)]
    /\ pc' = [pc EXCEPT ![r] = "done"]
    /\ UNCHANGED <<evars, size, plist, plist0, args, prng, prng_calls,
                   absorb_calls, loc, comm>>

\* ------------------------------------------------------- initial states
\* The photon files, arguments and generator outcomes the calls are run on.
FileParameters(dt) ==
    [FiducialExposureTime |-> 2, FiducialArea |-> 2, FiducialRedshift |-> 1,
     FiducialAngularDiameterDistance |-> 2, Dimension |-> 2, Width |-> 20,
     DataType |-> dt]

\* num_photons of a file: up to MaxCells emitters, MaxPhotons photons
Shapes ==
    {sh \in UNION {[1..k -> 0..MaxPerCell] : k \in 0..MaxCells} :
        SumSeq(sh) <= MaxPhotons}
PairShapes == {sh \in Shapes : Len(sh) = 2 /\ sh[1] >= 1 /\ sh[2] = 1}

EnergyValues == {2, 4}
Velocities == {<<0, 0, 0>>, <<4, 3, 0>>, <<-4, 3, 0>>, <<0, 0, -3>>}
DefaultEnergy(n) == [j \in 1..n |-> 2 + 2 * ((j - 1) % 2)]
DefaultVelocity(k) == [i \in 1..k |-> <<0, 0, 0>>]
CellCentre(i) == <<IF i % 2 = 1 THEN -5 ELSE 5, 5, -5>>

File(sh, energy, vel, dt) ==
    [p |-> FileParameters(dt),
     d |-> [x |-> [i \in 1..Len(sh) |-> CellCentre(i)[1]],
            y |-> [i \in 1..Len(sh) |-> CellCentre(i)[2]],
            z |-> [i \in 1..Len(sh) |-> CellCentre(i)[3]],
            dx |-> [i \in 1..Len(sh) |-> 10],
            vx |-> [i \in 1..Len(sh) |-> vel[i][1]],
            vy |-> [i \in 1..Len(sh) |-> vel[i][2]],
            vz |-> [i \in 1..Len(sh) |-> vel[i][3]],
            num_photons |-> sh,
            energy |-> energy]]

Axis(ax) == [tag |-> "axis", ax |-> ax]
Vec(L) == [tag |-> "vec", L |-> L]
Normals ==
    {Axis("x"), Axis("y"), Axis("z"), Vec(<<0, 0, 1>>), Vec(<<0, 0, -1>>),
     Vec(<<3, 4, 0>>)}

ARF(area, rmf) ==
    [tag |-> "arf", filename |-> "arf.fits", max_area |-> area,
     has_rmffile |-> rmf, rmffile |-> "rmf.fits"]
AbsorbModel(emid, aspec) == [tag |-> "model", emid |-> emid, aspec |-> aspec]
AbsorbModels ==
    {AbsorbModel(<<3, 5>>, <<2, 4>>), AbsorbModel(<<1, 3, 5>>, <<4, 0, 2>>)}
UValues == {<<0, 1>>, <<1, 2>>, <<3, 4>>}

ExpTimes == {None, Num(1), Num(4)}
Areas == {None, Num(1), Num(4), ARF(2, TRUE)}
\* <<redshift_new, dist_new>>
Distances ==
    {<<None, None>>, <<Num(1), None>>, <<Num(2), None>>, <<None, Num(4)>>,
     <<None, Num(1)>>, <<Num(2), Num(4)>>}

Args(normal, exp, area, rd, absorb, no_shifting) ==
    [normal |-> normal, area_new |-> area, exp_time_new |-> exp,
     redshift_new |-> rd[1], dist_new |-> rd[2], absorb_model |-> absorb,
     sky_center |-> None, no_shifting |-> no_shifting]

\* what a generator may return in a call on pl with arguments a; vary says
\* which of its outcomes range over all their values; a call that raises
\* asks for none
StreamsFor(pl, a, vary) ==
    LET n == n_ph_tot(pl)
        perms == IF vary.perm /\ ~BudgetExceeded(pl, a) THEN Perms(n)
                 ELSE {arange(n)}
        raws == IF vary.raw THEN [1..n -> {0, 1}] ELSE {[k \in 1..n |-> 1]}
        raw3 == IF vary.raw /\ a.normal.tag = "vec" THEN [1..n -> {0, 1}]
                ELSE {[k \in 1..n |-> 1]}
        us == IF vary.u /\ ~IsNone(a.absorb_model) THEN [1..n -> UValues]
              ELSE {[k \in 1..n |-> <<0, 1>>]}
        dets == IF vary.det /\ a.area_new.tag = "arf" THEN [1..n -> BOOLEAN]
                ELSE {[k \in 1..n |-> TRUE]}
    IN  {[perm |-> pm, raw |-> <<r1, r2, r3>>, u |-> u, det |-> dt] :
            pm \in perms, r1 \in raws, r2 \in raws, r3 \in raw3, u \in us,
            dt \in dets}

RECURSIVE RankStreams(_, _, _, _, _)
RankStreams(f, a, sz, vary, r) ==
    IF r = 0 THEN {(0 :> st) : st \in StreamsFor(from_file(f, 0, sz), a, vary)}
    ELSE {(r :> st) @@ before :
             st \in StreamsFor(from_file(f, r, sz), a, vary),
             before \in RankStreams(f, a, sz, vary, r - 1)}

\* a family of calls: the files, the arguments, the number of workers and
\* the generator outcomes that vary
ScenariosOf(files, argset, sz, vary) ==
    [files |-> files, args |-> argset, size |-> sz, vary |-> vary]

Vary(pm, raw, u, det) == [perm |-> pm, raw |-> raw, u |-> u, det |-> det]

\* every rescaling on every shape of sample
RescaleScenarios ==
    ScenariosOf(
        {File(sh, DefaultEnergy(SumSeq(sh)), DefaultVelocity(Len(sh)), "cells") :
            sh \in Shapes},
        {Args(Axis("z"), e, ar, rd, None, TRUE) :
            e \in ExpTimes, ar \in Areas, rd \in Distances},
        1, Vary(FALSE, FALSE, FALSE, FALSE))

\* every selection on every shape of sample
SampleScenarios ==
    ScenariosOf(
        {File(sh, DefaultEnergy(SumSeq(sh)), DefaultVelocity(Len(sh)), "cells") :
            sh \in Shapes},
        {Args(Axis("x"), None, ar[1], ar[2], None, TRUE) :
            ar \in {<<None, <<None, None>>>>, <<Num(1), <<None, None>>>>,
                    <<None, <<None, Num(4)>>>>}},
        1, Vary(TRUE, FALSE, FALSE, FALSE))

\* every assignment of energies to the photons of a sample
EnergyScenarios ==
    ScenariosOf(
        UNION {{File(sh, en, DefaultVelocity(Len(sh)), "cells") :
                   en \in [1..SumSeq(sh) -> EnergyValues]} : sh \in Shapes},
        {Args(Axis("x"), None, ar[1], ar[2], None, TRUE) :
            ar \in {<<None, <<None, None>>>>, <<Num(1), <<None, None>>>>,
                    <<None, <<Num(2), None>>>>}},
        1, Vary(FALSE, FALSE, FALSE, FALSE))

\* every velocity field seen along every normal
DopplerScenarios ==
    ScenariosOf(
        UNION {{File(sh, DefaultEnergy(SumSeq(sh)), vel, "cells") :
                   vel \in [1..Len(sh) -> Velocities]} : sh \in PairShapes},
        {Args(nm, od[1], None, od[2], None, ns) :
            nm \in Normals, ns \in BOOLEAN,
            od \in {<<None, <<None, None>>>>, <<None, <<Num(1), None>>>>,
                    <<None, <<None, Num(4)>>>>, <<Num(4), <<Num(2), None>>>>}},
        1, Vary(FALSE, FALSE, FALSE, FALSE))

\* every outcome of the absorption and detection draws, on the whole sample
\* and on the half of it kept at half the exposure time
AttenuationScenarios ==
    ScenariosOf(
        {File(<<2, 1>>, <<4, 2, 4>>, DefaultVelocity(2), "cells")}
          \cup {File(<<1, 1>>, en, DefaultVelocity(2), "cells") :
                   en \in [1..2 -> EnergyValues]},
        {Args(Axis("z"), None, ar, <<None, None>>, am, TRUE) :
            ar \in {None, ARF(2, TRUE), ARF(2, FALSE), ARF(4, TRUE)},
            am \in {None} \cup AbsorbModels}
          \cup {Args(Axis("z"), Num(1), None, <<None, None>>, am, TRUE) :
                   am \in AbsorbModels},
        1, Vary(FALSE, FALSE, TRUE, TRUE))

\* every outcome of the position draws
PositionScenarios ==
    ScenariosOf(
        {File(<<1, 1>>, DefaultEnergy(2), DefaultVelocity(2), dt) :
            dt \in {"cells", "particles"}},
        {Args(nm, None, None, <<None, None>>, None, TRUE) : nm \in Normals},
        1, Vary(FALSE, TRUE, FALSE, FALSE))

\* the same call on every worker of a communicator; the permutations the
\* generators return range over all of them when there are two workers
DistributedScenarios ==
    {ScenariosOf(
         {File(sh, DefaultEnergy(SumSeq(sh)), DefaultVelocity(Len(sh)),
               "cells") : sh \in Shapes},
         {Args(Axis("z"), None, ar, <<None, None>>, None, TRUE) :
             ar \in {None, Num(1), Num(4)}},
         sz, Vary(sz = 2, FALSE, FALSE, FALSE)) : sz \in 2..MaxSize}

Scenarios ==
    {RescaleScenarios, SampleScenarios, EnergyScenarios, DopplerScenarios,
     AttenuationScenarios, PositionScenarios} \cup DistributedScenarios

Init ==
    \E sc \in Scenarios :
        \E f \in sc.files, a \in sc.args :
            \E st \in RankStreams(f, a, sc.size, sc.vary, sc.size - 1) :
                /\ size = sc.size
                /\ plist = [r \in 0..(sc.size - 1) |-> from_file(f, r, sc.size)]
                /\ plist0 = plist
                /\ args = a
                /\ prng = st
                /\ prng_calls = [r \in 0..(sc.size - 1) |-> <<>>]
                /\ absorb_calls = [r \in 0..(sc.size - 1) |-> <<>>]
                /\ mylog = [r \in 0..(sc.size - 1) |-> <<>>]
                /\ pc = [r \in 0..(sc.size - 1) |-> "begin"]
                /\ loc = [r \in 0..(sc.size - 1) |-> BlankLocals]
                /\ comm = [allreduce |-> [r \in 0..(sc.size - 1) |-> None],
                           merge |-> [r \in 0..(sc.size - 1) |-> None]]
                /\ result = [r \in 0..(sc.size - 1) |-> None]
                /\ dict_order = <<>>
                /\ disk = {f}
                /\ evl = <<>>
                /\ last = NoCall

vars == <<pvars, evars>>

\* =============================================================== EventList
MaxEvents == 2     \* events in an event file
MaxLists == 2      \* EventLists read from files
MaxInputs == 2     \* input files of a merge

\* dict iteration: insertion order (<<>>), or the order of the keys' hash
\* slots, which is the same for every dict of one interpreter run (here the
\* slot order of the string hash of CPython 2.7 in a table of eight slots)
DictOrders ==
    {<<>>, <<"eobs", "PHA", "PI", "ysky", "xsky", "ypix", "xpix">>}

RECURSIVE InOrder(_, _)
InOrder(events, order) ==
    IF order = <<>> THEN <<>>
    ELSE (IF Head(order) \in Keys(events)
          THEN <<events[CHOOSE i \in 1..Len(events) :
                            events[i].k = Head(order)]>>
          ELSE <<>>) \o InOrder(events, Tail(order))

\* EventList.items(): the entries of the events dictionary as iterated
items(events) ==
    IF dict_order = <<>> THEN events ELSE InOrder(events, dict_order)

zip(s, t) ==
    [i \in 1..(IF Len(s) <= Len(t) THEN Len(s) ELSE Len(t)) |-> <<s[i], t[i]>>]

\* the outcome of a call
Returned(tag, v) == [tag |-> tag, v |-> v]
Raised(err, at) == [tag |-> "raise", err |-> err, at |-> at]

\* wcs_pix2world(xpix, ypix, 1) on the axis ax of the plane: the reference
\* value plus the plate scale times the offset from the reference pixel
\* (pixel coordinates in tenths of a pixel)
wcs_pix2world(wcs, pix, ax) ==
    [k \in 1..Len(pix) |->
        RAdd(RInt(wcs.crval[ax]),
             RMul(wcs.cdelt[ax], Rat(pix[k] - wcs.crpix[ax], 10)))]

\* __getitem__ that computes the sky coordinates at every read and stores
\* nothing
EventList_getitem_uncached(self, key) ==
    IF key = "xsky" \/ key = "ysky"
    THEN <<self,
           Returned("array",
                    wcs_pix2world(self.wcs,
                                  FieldOf(self.events,
                                          IF key = "xsky" THEN "xpix" ELSE "ypix"),
                                  IF key = "xsky" THEN 1 ELSE 2)),
           <<"wcs_pix2world">>>>
    ELSE IF key \in Keys(self.events)
    THEN <<self, Returned("array", FieldOf(self.events, key)), <<>>>>
    ELSE <<self, Raised("KeyError", "__getitem__"), <<>>>>

\* EventList.__getitem__: <<the EventList afterwards, the outcome, the calls
\* made on the coordinate system>>
EventList_getitem(self, key) ==
    IF key \in Keys(self.events)
    THEN <<self, Returned("array", FieldOf(self.events, key)), <<>>>>
    ELSE IF key = "xsky" \/ key = "ysky"
         THEN LET x == wcs_pix2world(self.wcs, FieldOf(self.events, "xpix"), 1)
                  y == wcs_pix2world(self.wcs, FieldOf(self.events, "ypix"), 2)
              IN  <<[self EXCEPT !.events = @ \o <<Entry("xsky", x, "degree"),
                                                   Entry("ysky", y, "degree")>>],
                    Returned("array", IF key = "xsky" THEN x ELSE y),
                    <<"wcs_pix2world">>>>
         ELSE <<self, Raised("KeyError", "__getitem__"), <<>>>>

\* a region of the image plane: the pixels from lo to hi on either axis
Region(lo, hi) == [lo |-> lo, hi |-> hi]

\* the mask of a region's filter: which of the positions lie inside
inside_x_y(region, x, y) ==
    [k \in 1..Len(x) |->
        /\ region.lo <= x[k] /\ x[k] <= region.hi
        /\ region.lo <= y[k] /\ y[k] <= region.hi]

\* filter_events that hands back an empty EventList when no event is inside
filter_events_without_check(self, region) ==
    LET idxs == inside_x_y(region, FieldOf(self.events, "xpix"),
                           FieldOf(self.events, "ypix"))
        its == items(self.events)
    IN  Returned("EventList",
                 EventList([n \in 1..Len(its) |->
                               Entry(its[n].k, MaskSelect(its[n].v, idxs),
                                     its[n].units)],
                           self.parameters))

\* EventList.filter_events
filter_events(self, region) ==
    LET idxs == inside_x_y(region, FieldOf(self.events, "xpix"),
                           FieldOf(self.events, "ypix"))
        its == items(self.events)
        new_events == [n \in 1..Len(its) |->
                          Entry(its[n].k, MaskSelect(its[n].v, idxs),
                                its[n].units)]
    IN  IF \A k \in 1..Len(idxs) : ~idxs[k]
        THEN Raised("RuntimeError", "filter_events")
        ELSE Returned("EventList", EventList(new_events, self.parameters))

\* a comparison of the coordinate systems that leaves the pixel scale out
assert_same_wcs_without_cdelt(wcs1, wcs2) ==
    /\ wcs1.crpix = wcs2.crpix
    /\ wcs1.crval = wcs2.crval

\* assert_same_wcs(wcs1, wcs2) passes
assert_same_wcs(wcs1, wcs2) ==
    /\ wcs1.crpix = wcs2.crpix
    /\ wcs1.crval = wcs2.crval
    /\ wcs1.cdelt = wcs2.cdelt

\* validate_parameters(first, second, skip) passes: the same keys, and equal
\* values under every key not skipped
validate_parameters(first, second, skip) ==
    /\ DOMAIN first = DOMAIN second
    /\ \A k \in DOMAIN first \ skip : first[k] = second[k]

\* uconcatenate([v1, v2]) raises unless both arrays carry the same units
uconcatenate_raises(e1, e2) == e1.units # e2.units
uconcatenate(e1, e2) == [v |-> e1.v \o e2.v, units |-> e1.units]

\* EventList.__add__
EventList_add(self, other) ==
    IF ~assert_same_wcs(self.wcs, other.wcs)
    THEN Raised("AssertionError", "assert_same_wcs")
    ELSE IF ~validate_parameters(self.parameters, other.parameters, {})
    THEN Raised("RuntimeError", "validate_parameters")
    ELSE LET pairs == zip(items(self.events), items(other.events))
             events == [i \in 1..Len(pairs) |->
                           LET v == uconcatenate(pairs[i][1], pairs[i][2])
                           IN  Entry(pairs[i][1].k, v.v, v.units)]
         IN  IF \E i \in 1..Len(pairs) :
                    uconcatenate_raises(pairs[i][1], pairs[i][2])
             THEN Raised("RuntimeError", "uconcatenate")
             ELSE IF "xpix" \notin Keys(events)
             THEN Raised("KeyError", "__init__")
             ELSE Returned("EventList", EventList(events, self.parameters))

\* the parameters of an event file, under their names in the file
EventFileParameters(has_pi, has_pha) ==
    LET channels == has_pi \/ has_pha
        names == {"exp_time", "area", "redshift", "d_a", "sky_center",
                  "dtheta", "pix_center"}
                   \cup (IF channels THEN {"rmf", "arf", "channel_type"}
                         ELSE {})
    IN  [h \in names |->
            CASE h = "exp_time" -> 2
              [] h = "area" -> 2
              [] h = "redshift" -> 1
              [] h = "d_a" -> 2
              [] h = "sky_center" -> <<30, 45>>
              [] h = "dtheta" -> Rat(5, 1)
              [] h = "pix_center" -> <<15, 15>>
              [] h = "rmf" -> "rmf.fits"
              [] h = "arf" -> "arf.fits"
              [] h = "channel_type" -> IF has_pha THEN "PHA" ELSE "PI"]

\* the datasets of an event file of n events: every dataset holds values of
\* a range of its own, so that a value tells its dataset and its row
EventFileData(n, has_pi, has_pha) ==
    LET names == {"xpix", "ypix", "eobs"}
                   \cup (IF has_pi THEN {"pi"} ELSE {})
                   \cup (IF has_pha THEN {"pha"} ELSE {})
    IN  [h \in names |->
            CASE h = "xpix" -> [k \in 1..n |-> 10 * k]
              [] h = "ypix" -> [k \in 1..n |-> 10 * k + 5]
              [] h = "eobs" -> [k \in 1..n |-> RInt(2 * k)]
              [] h = "pi" -> [k \in 1..n |-> 2 + k]
              [] h = "pha" -> [k \in 1..n |-> 6 + k]]

EventFile(n, has_pi, has_pha) ==
    [parameters |-> EventFileParameters(has_pi, has_pha),
     data |-> EventFileData(n, has_pi, has_pha)]

\* files without channels of one event and of MaxEvents events, files of
\* MaxEvents events with either channel column or both
EventFiles ==
    {EventFile(n, FALSE, FALSE) : n \in {1, MaxEvents}}
      \cup {EventFile(MaxEvents, pi, pha) : pi \in BOOLEAN, pha \in BOOLEAN}

\* event files of one event whose geometry or exposure time is not that of
\* EventFile(1, FALSE, FALSE)
GeometryFiles ==
    LET f == EventFile(1, FALSE, FALSE)
    IN  {[f EXCEPT !.parameters["dtheta"] = Rat(4, 1)],
         [f EXCEPT !.parameters["pix_center"] = <<25, 25>>],
         [f EXCEPT !.parameters["sky_center"] = <<31, 45>>],
         [f EXCEPT !.parameters["exp_time"] = 3]}

\* the event files a run finds on disk: files that differ in their number
\* of events, in their channel columns, or in one parameter
Disks ==
    {{EventFile(1, FALSE, FALSE), EventFile(MaxEvents, FALSE, FALSE)},
     {EventFile(MaxEvents, pi, pha) : pi \in BOOLEAN, pha \in BOOLEAN}
        \ {EventFile(MaxEvents, FALSE, FALSE)}}
      \cup {{EventFile(1, FALSE, FALSE), f} : f \in GeometryFiles}

\* the parameter names of an EventList and of its file
ParameterNames ==
    {<<"exp_time", "ExposureTime">>, <<"area", "Area">>,
     <<"redshift", "Redshift">>, <<"d_a", "AngularDiameterDistance">>,
     <<"sky_center", "sky_center">>, <<"dtheta", "dtheta">>,
     <<"pix_center", "pix_center">>, <<"rmf", "RMF">>, <<"arf", "ARF">>,
     <<"channel_type", "ChannelType">>, <<"mission", "Mission">>,
     <<"telescope", "Telescope">>, <<"instrument", "Instrument">>}

\* EventList.from_h5_file
from_h5_file(f) ==
    LET p == f.parameters
        d == f.data
        parameters ==
            [k \in {pn[2] : pn \in {q \in ParameterNames : q[1] \in DOMAIN p}} |->
                p[CHOOSE h \in DOMAIN p : <<h, k>> \in ParameterNames]]
        events ==
            <<Entry("xpix", d["xpix"], "none"),
              Entry("ypix", d["ypix"], "none"),
              Entry("eobs", d["eobs"], "keV")>>
              \o (IF "pi" \in DOMAIN d THEN <<Entry("PI", d["pi"], "none")>>
                  ELSE <<>>)
              \o (IF "pha" \in DOMAIN d THEN <<Entry("PHA", d["pha"], "none")>>
                  ELSE <<>>)
    IN  EventList(events, parameters)

\* a call recorded with the operands as they were when it was made
\* the parts of an EventList built by __add__ or filter_events that are
\* objects of the first operand: both hand self.parameters to __init__, which
\* stores it; the events dict is new, and uconcatenate and indexing with a
\* mask make new arrays
EventList_shared(out) ==
    IF out.tag = "EventList" THEN {"parameters"} ELSE {}

\* calls: the calls it made on the coordinate system; shared: the parts of
\* the result that are objects of an operand
Call(op, operands, out, calls, shared) ==
    [op |-> op, args |-> operands, out |-> out, calls |-> calls,
     shared |-> shared]

\* el was read from file f: its parameters and its first fields are the
\* file's
ReadFrom(el, f) ==
    /\ el.parameters = from_h5_file(f).parameters
    /\ \A n \in 1..Len(from_h5_file(f).events) :
           n <= Len(el.events) /\ el.events[n] = from_h5_file(f).events[n]

\* el = EventList.from_h5_file(f), of a file not read before
FromH5File(f) ==
    /\ f \in disk
    /\ Len(evl) < MaxLists
    /\ \A i \in 1..Len(evl) : ~ReadFrom(evl[i], f)
    /\ evl' = Append(evl, from_h5_file(f))
    /\ last' = Call("from_h5_file", <<>>,
                    Returned("EventList", from_h5_file(f)), <<>>, {})
    /\ UNCHANGED <<pvars, dict_order, disk>>

\* evl[i][key]
GetItem(i, key) ==
    /\ i \in 1..Len(evl)
    /\ LET got == EventList_getitem(evl[i], key)
       IN  /\ evl' = [evl EXCEPT ![i] = got[1]]
           /\ last' = Call("__getitem__", <<evl[i], key>>, got[2], got[3], {})
    /\ UNCHANGED <<pvars, dict_order, disk>>

\* evl[i] + evl[j]
Add(i, j) ==
    /\ i \in 1..Len(evl)
    /\ j \in 1..Len(evl)
    /\ last' = Call("__add__", <<evl[i], evl[j]>>,
                    EventList_add(evl[i], evl[j]), <<>>,
                    EventList_shared(EventList_add(evl[i], evl[j])))
    /\ UNCHANGED <<pvars, dict_order, disk, evl>>

\* evl[i].filter_events(region): reading xpix and ypix goes through
\* __getitem__
FilterEvents(i, region) ==
    /\ i \in 1..Len(evl)
    /\ LET x == EventList_getitem(evl[i], "xpix")
           y == EventList_getitem(x[1], "ypix")
       IN  /\ evl' = [evl EXCEPT ![i] = y[1]]
           /\ last' = Call("filter_events", <<evl[i], region>>,
                           filter_events(y[1], region), x[3] \o y[3],
                           EventList_shared(filter_events(y[1], region)))
    /\ UNCHANGED <<pvars, dict_order, disk>>

\* np.histogram2d(x, y, bins=[xbins, ybins]) with edges 0.5, 1.5, ...,
\* n + 0.5 on either axis: the bin of a coordinate given in tenths of a
\* pixel, 0 when it lies outside the edges; the last bin holds its right edge
BinOf(v, n) ==
    IF v < 5 \/ v > 10 * n + 5 THEN 0
    ELSE IF v = 10 * n + 5 THEN n
    ELSE (v - 5) \div 10 + 1
histogram2d(x, y, nx, ny) ==
    [i \in 1..nx |->
        [j \in 1..ny |->
            Cardinality({k \in 1..Len(x) :
                            BinOf(x[k], nx) = i /\ BinOf(y[k], ny) = j})]]

\* the image of EventList.write_fits_image: H[i][j] is the number of events
\* in column i and row j
write_fits_image(self, emin, emax) ==
    LET eobs == FieldOf(self.events, "eobs")
        mask_emin == [k \in 1..self.num_events |->
                         IsNone(emin) \/ RLt(emin.v, eobs[k])]
        mask_emax == [k \in 1..self.num_events |->
                         IsNone(emax) \/ RLt(eobs[k], emax.v)]
        mask == [k \in 1..self.num_events |-> mask_emin[k] /\ mask_emax[k]]
        nx == (2 * self.parameters["pix_center"][1] - 10) \div 10
        ny == (2 * self.parameters["pix_center"][2] - 10) \div 10
    IN  [nx |-> nx, ny |-> ny,
         H |-> histogram2d(MaskSelect(FieldOf(self.events, "xpix"), mask),
                           MaskSelect(FieldOf(self.events, "ypix"), mask),
                           nx, ny)]

\* self.write_fits_image(imagefile, emin=emin, emax=emax)
WriteFitsImage(self, emin, emax) ==
    /\ last' = Call("write_fits_image", <<self, emin, emax>>,
                    Returned("image", write_fits_image(self, emin, emax)),
                    <<>>, {})
    /\ UNCHANGED <<pvars, dict_order, disk, evl>>

\* the energy bounds of an image: none, or the lowest and the second
\* energy of an event file
ImageBounds == {None, Num(RInt(2))} \X {None, Num(RInt(4))}

\* the root worker writes the image of the EventList project_photons
\* returned, with both energy bounds or with neither
WriteImageOfResult ==
    /\ pc[0] = "done"
    /\ result[0].tag = "EventList"
    /\ \E b \in {c \in ImageBounds : IsNone(c[1]) = IsNone(c[2])} :
           WriteFitsImage(result[0].v, b[1], b[2])

\* np.histogram with a last bin that leaves its right edge out
histogram_half_open(e, bins, lo, hi) ==
    [n \in 1..bins |->
        Cardinality({k \in 1..Len(e) :
            /\ RLe(RInt(lo), e[k]) /\ RLt(e[k], RInt(hi))
            /\ RFloor(RDiv(RMul(RSub(e[k], RInt(lo)), RInt(bins)),
                           RInt(hi - lo))) = n - 1})]

\* np.histogram(e, bins=bins, range=(lo, hi)): bins of equal width, each
\* holding its left edge and the last one its right edge as well
histogram(e, bins, lo, hi) ==
    [n \in 1..bins |->
        Cardinality({k \in 1..Len(e) :
            /\ RLe(RInt(lo), e[k]) /\ RLe(e[k], RInt(hi))
            /\ (IF e[k] = RInt(hi) THEN bins - 1
                ELSE RFloor(RDiv(RMul(RSub(e[k], RInt(lo)), RInt(bins)),
                                 RInt(hi - lo)))) = n - 1})]

\* np.bincount(ch, minlength=minlength): how often each value from 0 on
\* occurs
bincount(ch, minlength) ==
    LET top == IF Len(ch) = 0 THEN 0 ELSE MaxSeq(ch) + 1
    IN  [n \in 1..(IF top > minlength THEN top ELSE minlength) |->
            Cardinality({k \in 1..Len(ch) : ch[k] = n - 1})]

\* the header of a response matrix file: the number of channels, and the
\* lowest channel when the file has a CHANNEL column
RMF(cmin) == [DETCHANS |-> 10 + MaxEvents, TLMIN |-> cmin]
RMFs == {RMF(None), RMF(Num(1))}

\* the table of EventList.write_spectrum
write_spectrum(self, bin_type, emin, emax, nchan, rmf) ==
    LET exposure == self.parameters["ExposureTime"]
        table(spectype, spec) ==
            [spectype |-> spectype, COUNTS |-> spec,
             COUNT_RATE |-> [n \in 1..Len(spec) |-> Rat(spec[n], exposure)],
             TOTCTS |-> SumSeq(spec)]
    IN  IF bin_type = "channel" /\ "ChannelType" \in DOMAIN self.parameters
        THEN LET spectype == self.parameters["ChannelType"]
                 cmin == IF IsNone(rmf.TLMIN) THEN 0 ELSE rmf.TLMIN.v
                 minlength == rmf.DETCHANS + (IF cmin = 1 THEN 1 ELSE 0)
                 spec == bincount(FieldOf(self.events, spectype), minlength)
             IN  table(spectype, IF cmin = 1 THEN Tail(spec) ELSE spec)
        ELSE table(IF bin_type = "energy" THEN "energy" ELSE "pi",
                   histogram(FieldOf(self.events, "eobs"), nchan, emin, emax))

\* evl[i].write_spectrum(specfile, bin_type, emin, emax, nchan), the
\* response matrix file holding the header rmf
WriteSpectrum(i, bin_type, emin, emax, nchan, rmf) ==
    /\ i \in 1..Len(evl)
    /\ last' = Call("write_spectrum", <<evl[i], bin_type, emin, emax, nchan>>,
                    Returned("table", write_spectrum(evl[i], bin_type, emin,
                                                     emax, nchan, rmf)),
                    <<>>, {})
    /\ UNCHANGED <<pvars, dict_order, disk, evl>>

\* energy ranges: one that ends at the highest energy of an event file, one
\* that begins above the lowest; the number of energy bins
SpectrumRanges == {<<0, 2 * MaxEvents>>, <<3, 2 * MaxEvents + 2>>}
SpectrumBins == 2

\* regions that hold the first event only, every event but the first, and
\* none
Regions == {Region(0, 19), Region(20, 10 * MaxEvents + 9), Region(0, 9)}

\* no project_photons call is running
IdlePipeline ==
    /\ size = 1
    /\ plist = [r \in {0} |->
                   from_file(File(<<>>, <<>>, <<>>, "cells"), 0, 1)]
    /\ plist0 = plist
    /\ args = Args(Axis("z"), None, None, <<None, None>>, None, TRUE)
    /\ prng = [r \in {0} |->
                  [perm |-> <<>>, raw |-> <<<<>>, <<>>, <<>>>>, u |-> <<>>,
                   det |-> <<>>]]
    /\ prng_calls = [r \in {0} |-> <<>>]
    /\ absorb_calls = [r \in {0} |-> <<>>]
    /\ mylog = [r \in {0} |-> <<>>]
    /\ pc = [r \in {0} |-> "begin"]
    /\ loc = [r \in {0} |-> BlankLocals]
    /\ comm = [allreduce |-> [r \in {0} |-> None],
               merge |-> [r \in {0} |-> None]]
    /\ result = [r \in {0} |-> None]

\* the steps of the workers of a project_photons call, and what the root
\* worker does with the EventList it was handed
Next ==
    \/ \E r \in Ranks :
          \/ RaiseBudget(r)
          \/ Rescale(r)
          \/ EnterAllreduce(r)
          \/ Select(r)
          \/ Project(r)
          \/ Attenuate(r)
          \/ EnterMerge(r)
          \/ Return(r)
    \/ WriteImageOfResult

Spec == Init /\ [][Next]_vars

\* the attributes of the events dictionary that convolve_with_psf asks for:
\* every EventList the code builds holds a plain dict (from_h5_file,
\* __add__, filter_events and project_photons start from {}), and a dict has
\* a copy method but no deepcopy method
dict_attributes == {"keys", "values", "items", "copy", "update", "get"}

\* the point spread functions a caller hands over: a width, or a function
\* of the number of events that returns that many offsets
PSFs == {[tag |-> "float", v |-> 5],
         [tag |-> "function", offset |-> [n \in 0..(MaxEvents + 1) |->
                                             [k \in 1..n |-> k]]]}

\* EventList.convolve_with_psf(psf). With a width, the name psf is bound
\* anew to the function that divides psf by dtheta, so the function divides
\* itself.
convolve_with_psf(self, psf) ==
    IF "deepcopy" \notin dict_attributes
    THEN Raised("AttributeError", "deepcopy")
    ELSE IF psf.tag = "float"
    THEN Raised("TypeError", "psf")
    ELSE LET d == psf.offset[self.num_events]
             new_events ==
                 [i \in 1..Len(self.events) |->
                     IF self.events[i].k \in {"xpix", "ypix"}
                     THEN Entry(self.events[i].k,
                                [k \in 1..Len(d) |-> self.events[i].v[k] + d[k]],
                                self.events[i].units)
                     ELSE self.events[i]]
         IN  Returned("EventList", EventList(new_events, self.parameters))

\* evl[i].convolve_with_psf(psf)
ConvolveWithPSF(i, psf) ==
    /\ i \in 1..Len(evl)
    /\ last' = Call("convolve_with_psf", <<evl[i], psf>>,
                    convolve_with_psf(evl[i], psf), <<>>,
                    EventList_shared(convolve_with_psf(evl[i], psf)))
    /\ UNCHANGED <<pvars, dict_order, disk, evl>>

InitEL ==
    /\ IdlePipeline
    /\ dict_order \in DictOrders
    /\ disk \in Disks
    /\ evl = <<>>
    /\ last = NoCall

SkyKeys == {"xsky", "ysky", "PI"}

NextEL ==
    \/ \E f \in EventFiles \cup GeometryFiles : FromH5File(f)
    \/ \E i \in 1..MaxLists, key \in SkyKeys : GetItem(i, key)
    \/ \E i, j \in 1..MaxLists : Add(i, j)
    \/ \E i \in 1..MaxLists, region \in Regions : FilterEvents(i, region)
    \/ \E i \in 1..MaxLists, b \in ImageBounds :
          i <= Len(evl) /\ WriteFitsImage(evl[i], b[1], b[2])
    \/ \E i \in 1..MaxLists, bin_type \in {"channel", "energy"},
          range \in SpectrumRanges, rmf \in RMFs :
          WriteSpectrum(i, bin_type, range[1], range[2], SpectrumBins, rmf)
    \/ \E i \in 1..MaxLists, psf \in PSFs : ConvolveWithPSF(i, psf)

EventSpec == InitEL /\ [][NextEL]_vars

\* ------------------------------------------------------------ merge_files
\* a file on disk under its name, with the members of its groups
\* "parameters" and "data"
H5File(name, parameters, data) ==
    [name |-> name, parameters |-> parameters, data |-> data]

\* the parameter names of a PhotonList and of its file (the cosmology is
\* left out of the files as it is left out of the PhotonList)
PhotonParameterNames ==
    {<<"fid_exp_time", "FiducialExposureTime">>, <<"fid_area", "FiducialArea">>,
     <<"fid_redshift", "FiducialRedshift">>,
     <<"fid_d_a", "FiducialAngularDiameterDistance">>,
     <<"dimension", "Dimension">>, <<"width", "Width">>,
     <<"data_type", "DataType">>}
PhotonDataNames ==
    {"x", "y", "z", "dx", "vx", "vy", "vz", "num_photons", "energy"}

\* the file of a PhotonList of the given emitters, exposed for exp
PhotonH5File(name, sh, exp) ==
    LET f == File(sh, DefaultEnergy(SumSeq(sh)), DefaultVelocity(Len(sh)),
                  "cells")
        p == [f.p EXCEPT !.FiducialExposureTime = exp]
    IN  H5File(name,
               [h \in {pn[1] : pn \in PhotonParameterNames} |->
                   p[CHOOSE k \in DOMAIN p : <<h, k>> \in PhotonParameterNames]],
               f.d)

\* PhotonList.from_file(filename) on a single worker: every parameter but
\* data_type and every dataset is looked up by its name
read_photon_file(h) ==
    IF \/ \E pn \in PhotonParameterNames :
              pn[1] # "data_type" /\ pn[1] \notin DOMAIN h.parameters
       \/ \E d \in PhotonDataNames : d \notin DOMAIN h.data
    THEN Raised("KeyError", "from_file")
    ELSE LET p == [k \in {pn[2] : pn \in PhotonParameterNames} |->
                      LET key == CHOOSE q \in PhotonParameterNames : q[2] = k
                      IN  IF key[1] \in DOMAIN h.parameters
                          THEN h.parameters[key[1]] ELSE "cells"]
         IN  Returned("PhotonList", from_file([p |-> p, d |-> h.data], 0, 1))

\* key.endswith("exp_time"), over the names the files hold
endswith_exp_time(key) == key \in {"exp_time", "fid_exp_time"}

RECURSIVE concatenate(_, _)
\* np.concatenate(data[k]): dataset k of the files that hold it, in order
concatenate(files, k) ==
    IF Len(files) = 0 THEN <<>>
    ELSE (IF k \in DOMAIN Head(files).data THEN Head(files).data[k] ELSE <<>>)
            \o concatenate(Tail(files), k)

\* the exposure time of the first file whatever add_exposure_times is
tot_exp_time_of_first(files, exp_time_key, add_exposure_times) ==
    files[1].parameters[exp_time_key]

\* tot_exp_time of merge_files after its loop over the input files
tot_exp_time(files, exp_time_key, add_exposure_times) ==
    IF add_exposure_times
    THEN SumSeq([i \in 1..Len(files) |-> files[i].parameters[exp_time_key]])
    ELSE files[1].parameters[exp_time_key]

\* merge_files once the output file may be written: files are the input
\* files in the order given. The output file is created, and the first
\* file's parameters but its exposure time copied, before the parameters are
\* compared, so a failed comparison leaves that much of it behind.
merge_files(files, output_file, add_exposure_times) ==
    LET f_in == files[1]
        exp_time_key ==
            CHOOSE key \in DOMAIN f_in.parameters : endswith_exp_time(key)
        copied == [key \in DOMAIN f_in.parameters \ {exp_time_key} |->
                      f_in.parameters[key]]
        skip == IF add_exposure_times THEN {exp_time_key} ELSE {}
        keys == UNION {DOMAIN files[i].data : i \in 1..Len(files)}
    IN  IF \E i \in 2..Len(files) :
               ~validate_parameters(f_in.parameters, files[i].parameters, skip)
        THEN [out |-> Raised("RuntimeError", "validate_parameters"),
              file |-> H5File(output_file, copied, <<>>)]
        ELSE [out |-> Returned("None", None),
              file |-> H5File(output_file,
                              [key \in DOMAIN copied \cup {"exp_time"} |->
                                  IF key = "exp_time"
                                  THEN tot_exp_time(files, exp_time_key,
                                                    add_exposure_times)
                                  ELSE copied[key]],
                              [k \in keys |-> concatenate(files, k)])]

Named(name) == CHOOSE f \in disk : f.name = name
Exists(name) == \E f \in disk : f.name = name

\* merge_files(input_files, output_file, clobber, add_exposure_times)
MergeFiles(input_files, output_file, clobber, add_exposure_times) ==
    /\ \A i \in 1..Len(input_files) :
           Exists(input_files[i]) /\ input_files[i] # output_file
    /\ LET files == [i \in 1..Len(input_files) |-> Named(input_files[i])]
           operands == [input_files |-> files, output_file |-> output_file,
                        clobber |-> clobber,
                        add_exposure_times |-> add_exposure_times]
           merged == merge_files(files, output_file, add_exposure_times)
       IN  IF Exists(output_file) /\ ~clobber
           THEN /\ last' = Call("merge_files", operands,
                                Raised("IOError", "merge_files"), <<>>, {})
                /\ UNCHANGED disk
           ELSE /\ last' = Call("merge_files", operands, merged.out, <<>>, {})
                /\ disk' = {f \in disk : f.name # output_file}
                              \cup {merged.file}
    /\ UNCHANGED <<pvars, dict_order, evl>>

\* PhotonList.from_file(name)
FromFile(name) ==
    /\ Exists(name)
    /\ last' = Call("from_file", Named(name), read_photon_file(Named(name)),
                    <<>>, {})
    /\ UNCHANGED <<pvars, dict_order, evl, disk>>

\* the directories merge_files is run in: two event files or two photon
\* files that agree, that differ in their exposure time only, in another
\* parameter, or in their datasets
MergeDisks ==
    LET e == EventFile(1, FALSE, FALSE)
        g == EventFile(MaxEvents, FALSE, FALSE)
        a(f) == H5File("a.h5", f.parameters, f.data)
        b(f) == H5File("b.h5", f.parameters, f.data)
    IN  {{a(e), b(g)},
         {a(e), b([g EXCEPT !.parameters["exp_time"] = 3])},
         {a(e), b([g EXCEPT !.parameters["dtheta"] = Rat(4, 1)])},
         {a(EventFile(MaxEvents, TRUE, FALSE)),
          b(EventFile(MaxEvents, TRUE, TRUE))},
         {PhotonH5File("a.h5", <<1, 1>>, 2), PhotonH5File("b.h5", <<2>>, 2)},
         {PhotonH5File("a.h5", <<1>>, 2), PhotonH5File("b.h5", <<1, 0>>, 3)}}

InputLists == UNION {[1..k -> {"a.h5", "b.h5"}] : k \in 1..MaxInputs}

InitMF ==
    /\ IdlePipeline
    /\ dict_order = <<>>
    /\ disk \in MergeDisks
    /\ evl = <<>>
    /\ last = NoCall

NextMF ==
    \/ \E input_files \in InputLists, clobber, add \in BOOLEAN :
          MergeFiles(input_files, "merged.h5", clobber, add)
    \/ \E name \in {"a.h5", "merged.h5"} : FromFile(name)

MergeSpec == InitMF /\ [][NextMF]_vars

\* ================================================================ claims
\* The fraction of the sample a call asks for, as the specification states
\* it: area ratio times exposure ratio times distance ratio, each 1 when its
\* override is not supplied.
Fraction(r) ==
    LET P == plist0[r].parameters
        area_ratio ==
            IF IsNone(args.area_new) THEN RInt(1)
            ELSE IF args.area_new.tag = "arf"
                 THEN Rat(args.area_new.max_area, P.FiducialArea)
                 ELSE Rat(args.area_new.v, P.FiducialArea)
        time_ratio ==
            IF IsNone(args.exp_time_new) THEN RInt(1)
            ELSE Rat(args.exp_time_new.v, P.FiducialExposureTime)
        z1 == IF IsNone(args.redshift_new) THEN 0 ELSE args.redshift_new.v
        D1 == IF IsNone(args.redshift_new) THEN args.dist_new.v
              ELSE angular_diameter_distance(args.redshift_new.v)
        D0 == P.FiducialAngularDiameterDistance
        z0 == P.FiducialRedshift
        distance_ratio ==
            IF IsNone(args.redshift_new) /\ IsNone(args.dist_new) THEN RInt(1)
            ELSE Rat(D0 * D0 * (2 + z0) * (2 + z0) * (2 + z0),
                     D1 * D1 * (2 + z1) * (2 + z1) * (2 + z1))
    IN  RMul(RMul(area_ratio, time_ratio), distance_ratio)

TotalPhotons(r) == SumSeq(plist0[r].photons.NumberOfPhotons)
Selected(r) == pc[r] \in {"project", "attenuate", "merge", "in_merge", "done"}
Projected(r) == pc[r] \in {"attenuate", "merge", "in_merge", "done"}
Attenuated(r) == pc[r] \in {"merge", "in_merge", "done"}

\* C1: whenever the requested fraction exceeds 1 the call raises the budget
\* error, and it has then drawn nothing from the generator, not touched the
\* absorption model, entered no collective, returned no EventList and left
\* the PhotonList as it was.
C1_BudgetErrorIsClean ==
    \A r \in Ranks :
        (pc[r] # "begin" /\ RLt(RInt(1), Fraction(r))) =>
            /\ pc[r] = "raised"
            /\ prng_calls[r] = <<>>
            /\ absorb_calls[r] = <<>>
            /\ IsNone(comm.allreduce[r])
            /\ IsNone(comm.merge[r])
            /\ IsNone(result[r])
            /\ plist[r] = plist0[r]

\* a call that raised although an absorption model and a response were given
C1_Witness ==
    \E r \in Ranks :
        /\ pc[r] = "raised"
        /\ ~IsNone(args.absorb_model)
        /\ args.area_new.tag = "arf"

\* C2: when the requested fraction is at most 1, the number of photon
\* indices a worker selects is floor(n_ph_tot * fraction), n_ph_tot being the
\* worker's local photon total; with no override it is n_ph_tot.
C2_SelectedCount ==
    \A r \in Ranks :
        (Selected(r) /\ RLe(Fraction(r), RInt(1))) =>
            /\ Len(loc[r].idxs) =
                   (TotalPhotons(r) * Fraction(r)[1]) \div Fraction(r)[2]
            /\ (IsNone(args.area_new) /\ IsNone(args.exp_time_new)
                  /\ IsNone(args.redshift_new) /\ IsNone(args.dist_new))
                 => Len(loc[r].idxs) = TotalPhotons(r)

\* a selection at a fraction strictly between 0 and 1 whose product with the
\* photon total is not a whole number
C2_Witness ==
    \E r \in Ranks :
        /\ Selected(r)
        /\ RLt(Fraction(r), RInt(1))
        /\ (TotalPhotons(r) * Fraction(r)[1]) % Fraction(r)[2] # 0
        /\ Len(loc[r].idxs) >= 1

\* C3: when the target count equals the photon total the selected indices
\* are 0, 1, ..., n_ph_tot-1 in increasing order and no permutation is drawn;
\* when it is smaller the selected indices are pairwise distinct, number
\* exactly the target count and all lie in [0, n_ph_tot).
C3_IndexSampling ==
    \A r \in Ranks :
        Selected(r) =>
            LET idxs == loc[r].idxs
                n == TotalPhotons(r)
                target == loc[r].my_n_obs
            IN  /\ target = n =>
                      /\ idxs = [k \in 1..n |-> k - 1]
                      /\ \A i \in 1..Len(prng_calls[r]) :
                             prng_calls[r][i] # "permutation"
                /\ target < n =>
                      /\ Len(idxs) = target
                      /\ \A i, j \in 1..Len(idxs) : i # j => idxs[i] # idxs[j]
                      /\ \A i \in 1..Len(idxs) : 0 <= idxs[i] /\ idxs[i] < n

\* a selection of two or more photons out of more, not in increasing order
C3_Witness ==
    \E r \in Ranks :
        /\ Selected(r)
        /\ loc[r].my_n_obs < TotalPhotons(r)
        /\ Len(loc[r].idxs) >= 2
        /\ loc[r].idxs[1] > loc[r].idxs[2]

\* C4: every selected photon index j is mapped to an owner emitter with
\* 0 <= owner < num_cells and p_bins[owner] <= j < p_bins[owner+1]; an emitter
\* with zero photons is never an owner.
C4_OwnerLookup ==
    \A r \in Ranks :
        Selected(r) =>
            /\ Len(loc[r].obs_cells) = Len(loc[r].idxs)
            /\ \A k \in 1..Len(loc[r].idxs) :
                   LET j == loc[r].idxs[k]
                       owner == loc[r].obs_cells[k]
                       p_bins == plist[r].p_bins
                   IN  /\ 0 <= owner /\ owner < plist[r].num_cells
                       /\ p_bins[owner + 1] <= j /\ j < p_bins[owner + 2]
                       /\ plist[r].photons.NumberOfPhotons[owner + 1] > 0

\* a photon owned by an emitter that follows two emitters without photons
C4_Witness ==
    \E r \in Ranks :
        /\ Selected(r)
        /\ plist[r].num_cells >= 3
        /\ plist[r].photons.NumberOfPhotons[1] = 0
        /\ plist[r].photons.NumberOfPhotons[2] = 0
        /\ \E k \in 1..Len(loc[r].obs_cells) : loc[r].obs_cells[k] = 2

\* the rest energies of the sample, the scale factor and the line-of-sight
\* velocity of an emitter, as the specification states them
RestEnergy(r, j) == plist0[r].photons.Energy[j + 1]
Count(seq, v) == Cardinality({k \in 1..Len(seq) : seq[k] = v})
ScaleFactor(r) ==
    IF IsNone(args.redshift_new) THEN RInt(1)
    ELSE Rat(2 + plist0[r].parameters.FiducialRedshift, 2 + args.redshift_new.v)
VLos(r, owner) ==
    LET v == <<plist0[r].photons.vx[owner + 1], plist0[r].photons.vy[owner + 1],
               plist0[r].photons.vz[owner + 1]>>
    IN  IF args.normal.tag = "axis"
        THEN RInt(v[CASE args.normal.ax = "x" -> 1 [] args.normal.ax = "y" -> 2
                      [] args.normal.ax = "z" -> 3])
        ELSE Rat(Dot(v, args.normal.L), ISqrt(Dot(args.normal.L, args.normal.L)))

\* C5: a single-process call with no absorption model and no
\* energy-dependent response returns exactly target_count events; with
\* no_shifting and no redshift override every event energy is a rest energy
\* of the sample and no energy occurs among the events more often than among
\* the photons.
C5_SingleProcessEvents ==
    (size = 1 /\ pc[0] = "done" /\ IsNone(args.absorb_model)
       /\ args.area_new.tag # "arf") =>
        LET ev == result[0].v
            energies == FieldOf(ev.events, "eobs")
            rest == plist0[0].photons.Energy
            target == (TotalPhotons(0) * Fraction(0)[1]) \div Fraction(0)[2]
        IN  /\ ev.num_events = target
            /\ Len(energies) = target
            /\ (args.no_shifting /\ IsNone(args.redshift_new)) =>
                  /\ \A k \in 1..Len(energies) :
                         \E j \in 1..Len(rest) : energies[k] = RInt(rest[j])
                  /\ \A j \in 1..Len(rest) :
                         Count(energies, RInt(rest[j])) <= Count(rest, rest[j])

\* half of a sample of unequal energies returned, the rarer energy among them
C5_Witness ==
    /\ size = 1 /\ pc[0] = "done"
    /\ IsNone(args.absorb_model) /\ args.area_new.tag # "arf"
    /\ args.no_shifting /\ IsNone(args.redshift_new)
    /\ result[0].v.num_events >= 1
    /\ result[0].v.num_events < TotalPhotons(0)
    /\ \E k \in 1..result[0].v.num_events :
           Count(plist0[0].photons.Energy,
                 FieldOf(result[0].v.events, "eobs")[k][1]) = 1

\* C6: with no_shifting every candidate photon's observed energy is its rest
\* energy times scale_factor, whatever the emitter velocities and the viewing
\* direction; scale_factor is (1+z_fiducial)/(1+redshift_new) when
\* redshift_new is supplied and 1 otherwise, also when only dist_new is.
C6_NoShifting ==
    \A r \in Ranks :
        (Projected(r) /\ args.no_shifting) =>
            /\ Len(loc[r].eobs) = Len(loc[r].idxs)
            /\ \A k \in 1..Len(loc[r].idxs) :
                   loc[r].eobs[k] =
                       RMul(RInt(RestEnergy(r, loc[r].idxs[k])), ScaleFactor(r))
            /\ IsNone(args.redshift_new) =>
                   \A k \in 1..Len(loc[r].idxs) :
                       loc[r].eobs[k] = RInt(RestEnergy(r, loc[r].idxs[k]))

\* a moving emitter seen along an oblique direction, its photon unshifted
\* apart from a scale factor other than 1
C6_Witness ==
    \E r \in Ranks :
        /\ Projected(r) /\ args.no_shifting
        /\ ~IsNone(args.redshift_new) /\ ScaleFactor(r) # RInt(1)
        /\ args.normal.tag = "vec"
        /\ \E k \in 1..Len(loc[r].idxs) :
               VLos(r, loc[r].obs_cells[k]) # RInt(0)

\* C7 as stated: with shifting enabled the observed energy is rest energy *
\* sqrt((1 - v_los/c)/(1 + v_los/c)) * scale_factor, and an emitter with
\* v_los > 0 never yields an observed energy greater than rest energy *
\* scale_factor.
C7_AsStated ==
    \A r \in Ranks :
        (Projected(r) /\ ~args.no_shifting) =>
            \A k \in 1..Len(loc[r].idxs) :
                LET v == VLos(r, loc[r].obs_cells[k])
                    unshifted == RMul(RInt(RestEnergy(r, loc[r].idxs[k])),
                                      ScaleFactor(r))
                IN  /\ loc[r].eobs[k] =
                           RMul(unshifted,
                                RSqrt(RDiv(RSub(RInt(clight), v),
                                           RAdd(RInt(clight), v))))
                    /\ RLt(RInt(0), v) => RLe(loc[r].eobs[k], unshifted)

\* C7: with shifting enabled the observed energy is rest energy *
\* sqrt((1 + v_los/c)/(1 - v_los/c)) * scale_factor, v_los being the owning
\* emitter's velocity projected onto the line-of-sight unit vector (the
\* principal-axis component for an axis-aligned projection); an emitter with
\* v_los > 0 never yields an observed energy less than rest energy *
\* scale_factor.
C7_DopplerShift ==
    \A r \in Ranks :
        (Projected(r) /\ ~args.no_shifting) =>
            /\ Len(loc[r].eobs) = Len(loc[r].idxs)
            /\ \A k \in 1..Len(loc[r].idxs) :
                   LET v == VLos(r, loc[r].obs_cells[k])
                       unshifted == RMul(RInt(RestEnergy(r, loc[r].idxs[k])),
                                         ScaleFactor(r))
                   IN  /\ loc[r].eobs[k] =
                              RMul(unshifted,
                                   RSqrt(RDiv(RAdd(RInt(clight), v),
                                              RSub(RInt(clight), v))))
                       /\ RLt(RInt(0), v) => RLe(unshifted, loc[r].eobs[k])

\* an emitter with v_los > 0 along an oblique line of sight, its photon
\* observed above rest energy * scale_factor, the scale factor not 1
C7_Witness ==
    \E r \in Ranks :
        /\ Projected(r) /\ ~args.no_shifting
        /\ args.normal.tag = "vec"
        /\ ScaleFactor(r) # RInt(1)
        /\ \E k \in 1..Len(loc[r].idxs) :
               /\ RLt(RInt(0), VLos(r, loc[r].obs_cells[k]))
               /\ RLt(RMul(RInt(RestEnergy(r, loc[r].idxs[k])), ScaleFactor(r)),
                      loc[r].eobs[k])

\* the candidates that pass every filter supplied, in candidate order
Passes(r, k) ==
    /\ IsNone(args.absorb_model) \/ loc[r].not_abs[k]
    /\ args.area_new.tag # "arf" \/ prng[r].det[k]
RECURSIVE PassingFrom(_, _)
PassingFrom(r, k) ==
    IF k > Len(loc[r].idxs) THEN <<>>
    ELSE (IF Passes(r, k) THEN <<k>> ELSE <<>>) \o PassingFrom(r, k + 1)

\* C8: a candidate photon becomes an event exactly when it passes the
\* absorption mask and the detection mask, a filter not supplied passing
\* every photon; xpix, ypix and eobs of the result are the candidate
\* sequences restricted by that one mask: equal lengths, the k-th entry of
\* each field from the same photon, in candidate order.
C8_OneMask ==
    \A r \in Ranks :
        Attenuated(r) =>
            LET passing == PassingFrom(r, 1)
                xpix == FieldOf(loc[r].events, "xpix")
                ypix == FieldOf(loc[r].events, "ypix")
                eobs == FieldOf(loc[r].events, "eobs")
            IN  /\ Len(xpix) = Len(passing)
                /\ Len(ypix) = Len(passing)
                /\ Len(eobs) = Len(passing)
                /\ \A j \in 1..Len(passing) :
                       /\ xpix[j] = to_pix(plist[r], <<loc[r].xsky[passing[j]]>>)[1]
                       /\ ypix[j] = to_pix(plist[r], <<loc[r].ysky[passing[j]]>>)[1]
                       /\ eobs[j] = loc[r].eobs[passing[j]]
                /\ (size = 1 /\ pc[r] = "done") =>
                       result[r].v.events = loc[r].events

\* both filters supplied: one candidate absorbed only, one undetected only,
\* one passing both
C8_Witness ==
    \E r \in Ranks :
        /\ Attenuated(r)
        /\ ~IsNone(args.absorb_model) /\ args.area_new.tag = "arf"
        /\ \E k1, k2, k3 \in 1..Len(loc[r].idxs) :
               /\ loc[r].not_abs[k1] /\ ~prng[r].det[k1]
               /\ ~loc[r].not_abs[k2] /\ prng[r].det[k2]
               /\ Passes(r, k3)

\* C9: the absorption filter keeps a photon exactly when u * max(curve) <
\* curve interpolated at the photon's observed energy, u in [0, 1) drawn once
\* per photon in one call on the generator, the curve counting as 0 outside
\* its energy grid: a photon whose observed energy lies outside the grid
\* never survives.
C9_AbsorptionRule ==
    \A r \in Ranks :
        (Attenuated(r) /\ ~IsNone(args.absorb_model)) =>
            LET emid == args.absorb_model.emid
                aspec == args.absorb_model.aspec
                u == prng[r].u
            IN  /\ Len(loc[r].not_abs) = Len(loc[r].eobs)
                /\ Count(prng_calls[r], "uniform") =
                       1 + (IF plist[r].parameters.DataType = "cells"
                            THEN PositionDraws(args) ELSE 0)
                /\ \A k \in 1..Len(loc[r].eobs) :
                       LET E == loc[r].eobs[k]
                       IN  /\ RLe(RInt(0), u[k]) /\ RLt(u[k], RInt(1))
                           /\ loc[r].not_abs[k] <=>
                                  RLt(RMul(u[k], RInt(MaxSeq(aspec))),
                                      interp(E, emid, aspec))
                           /\ (RLt(E, RInt(emid[1]))
                                 \/ RLt(RInt(emid[Len(emid)]), E))
                                => ~loc[r].not_abs[k]

\* a photon outside the grid absorbed at u = 0, one inside the grid kept and
\* one inside the grid absorbed
C9_Witness ==
    \E r \in Ranks :
        /\ Attenuated(r) /\ ~IsNone(args.absorb_model)
        /\ \E k1, k2, k3 \in 1..Len(loc[r].eobs) :
               LET emid == args.absorb_model.emid
                   In(k) == /\ RLe(RInt(emid[1]), loc[r].eobs[k])
                            /\ RLe(loc[r].eobs[k], RInt(emid[Len(emid)]))
               IN  /\ ~In(k1) /\ prng[r].u[k1] = RInt(0) /\ ~loc[r].not_abs[k1]
                   /\ In(k2) /\ loc[r].not_abs[k2]
                   /\ In(k3) /\ ~loc[r].not_abs[k3]

\* C10: for two EventLists a and b with matching geometry and parameters,
\* a + b is an EventList in which every field name present in both holds a's
\* sequence followed by b's sequence of the same field name, and num_events
\* is a.num_events + b.num_events, whatever the order of the two events
\* dictionaries and whether or not an operand has cached sky coordinates.
C10_AddConcatenates ==
    (last.op = "__add__"
       /\ last.args[1].wcs = last.args[2].wcs
       /\ last.args[1].parameters = last.args[2].parameters) =>
        LET a == last.args[1]
            b == last.args[2]
        IN  /\ last.out.tag = "EventList"
            /\ last.out.v.num_events = a.num_events + b.num_events
            /\ \A key \in Keys(a.events) \cap Keys(b.events) :
                   /\ key \in Keys(last.out.v.events)
                   /\ FieldOf(last.out.v.events, key) =
                          FieldOf(a.events, key) \o FieldOf(b.events, key)

\* the per-event tuples (xpix, ypix, eobs) of an EventList, and two
\* sequences holding the same values the same number of times
Tuples(el) ==
    [k \in 1..el.num_events |->
        <<FieldOf(el.events, "xpix")[k], FieldOf(el.events, "ypix")[k],
          FieldOf(el.events, "eobs")[k]>>]
SameMultiset(s, t) ==
    /\ Len(s) = Len(t)
    /\ \A k \in 1..Len(s) : Count(s, s[k]) = Count(t, s[k])
Compatible(a, b) == a.wcs = b.wcs /\ a.parameters = b.parameters

\* C11: merge is commutative and associative up to row order: for
\* compatible a, b, c the multiset of per-event tuples (xpix, ypix, eobs) of
\* a+b equals that of b+a, and that of (a+b)+c equals that of a+(b+c).
C11_MergeCommutes ==
    \A i, j \in 1..Len(evl) :
        Compatible(evl[i], evl[j]) =>
            LET ab == EventList_add(evl[i], evl[j])
                ba == EventList_add(evl[j], evl[i])
            IN  /\ ab.tag = "EventList" <=> ba.tag = "EventList"
                /\ (ab.tag = "EventList" /\ ba.tag = "EventList") =>
                       /\ SameMultiset(Tuples(ab.v), Tuples(ba.v))
                       /\ \A k \in 1..Len(evl) :
                              Compatible(evl[j], evl[k]) =>
                                  LET bc == EventList_add(evl[j], evl[k])
                                      l == EventList_add(ab.v, evl[k])
                                      r == IF bc.tag = "EventList"
                                           THEN EventList_add(evl[i], bc.v)
                                           ELSE bc
                                  IN  /\ l.tag = "EventList" <=>
                                             r.tag = "EventList"
                                      /\ l.tag = "EventList" /\ r.tag = "EventList"
                                           => SameMultiset(Tuples(l.v),
                                                           Tuples(r.v))

\* the parameters that fix the geometry of an EventList
Geometry(el) ==
    <<el.parameters["dtheta"], el.parameters["pix_center"],
      el.parameters["sky_center"]>>

\* C12: a merge of two EventLists whose geometry (dtheta, pix_center,
\* sky_center) differs fails in the comparison of the coordinate systems, a
\* merge of two whose geometry agrees and whose other parameters differ fails
\* in the comparison of the parameters; either error is raised before any
\* field is concatenated, no EventList is returned and both operands are
\* what they were.
C12_MismatchFails ==
    last.op = "__add__" =>
        LET a == last.args[1]
            b == last.args[2]
        IN  /\ Geometry(a) # Geometry(b) =>
                   last.out = Raised("AssertionError", "assert_same_wcs")
            /\ (Geometry(a) = Geometry(b) /\ a.parameters # b.parameters) =>
                   last.out = Raised("RuntimeError", "validate_parameters")
            /\ \E i, j \in 1..Len(evl) : evl[i] = a /\ evl[j] = b
C12_Witness ==
    /\ last.op = "__add__"
    /\ last.args[1].parameters["dtheta"] # last.args[2].parameters["dtheta"]
    /\ last.args[1].events # <<>>
    /\ last.out.tag = "raise"

\* the rows of an EventList that lie inside a region, and the entries of a
\* sequence at the rows of a set, in their order
RowsInside(el, region) ==
    {k \in 1..el.num_events :
        /\ region.lo <= FieldOf(el.events, "xpix")[k]
        /\ FieldOf(el.events, "xpix")[k] <= region.hi
        /\ region.lo <= FieldOf(el.events, "ypix")[k]
        /\ FieldOf(el.events, "ypix")[k] <= region.hi}
RECURSIVE AtRows(_, _, _)
AtRows(s, rows, n) ==
    IF n > Len(s) THEN <<>>
    ELSE (IF n \in rows THEN <<s[n]>> ELSE <<>>) \o AtRows(s, rows, n + 1)

\* C13: filter_events returns a new EventList that holds exactly the rows
\* inside the region, in their original order, every field cut down to the
\* same rows; it raises when no row is inside; the EventList it was called
\* on is what it was.
C13_FilterKeepsMatchingRows ==
    last.op = "filter_events" =>
        LET a == last.args[1]
            rows == RowsInside(a, last.args[2])
        IN  /\ rows = {} => last.out = Raised("RuntimeError", "filter_events")
            /\ rows # {} =>
                   /\ last.out.tag = "EventList"
                   /\ last.out.v.num_events = Cardinality(rows)
                   /\ last.out.v.parameters = a.parameters
                   /\ Keys(last.out.v.events) = Keys(a.events)
                   /\ \A key \in Keys(a.events) :
                          FieldOf(last.out.v.events, key) =
                              AtRows(FieldOf(a.events, key), rows, 1)
            /\ \E i \in 1..Len(evl) : evl[i] = a
C13_Witness ==
    /\ last.op = "filter_events"
    /\ last.out.tag = "EventList"
    /\ last.out.v.num_events < last.args[1].num_events
    /\ "xsky" \in Keys(last.out.v.events)
    /\ dict_order # <<>>

\* the sum of all bins of an image, and the events of an EventList that pass
\* the energy mask of an image
RECURSIVE SumOver(_, _)
SumOver(S, f) ==
    IF S = {} THEN 0
    ELSE LET x == CHOOSE y \in S : TRUE IN f[x] + SumOver(S \ {x}, f)
SumBins(img) ==
    SumOver((1..img.nx) \X (1..img.ny),
            [c \in (1..img.nx) \X (1..img.ny) |-> img.H[c[1]][c[2]]])
PassingEnergy(el, emin, emax) ==
    {k \in 1..el.num_events :
        /\ IsNone(emin) \/ RLt(emin.v, FieldOf(el.events, "eobs")[k])
        /\ IsNone(emax) \/ RLt(FieldOf(el.events, "eobs")[k], emax.v)}

\* C14: for every emin and emax, each possibly absent, the sum of all bins
\* of the image equals the number of events that pass the energy mask, and
\* the image has 2*pix_center - 1 bins on either axis.
C14_ImageCountsEveryEvent ==
    last.op = "write_fits_image" =>
        LET el == last.args[1]
            img == last.out.v
        IN  /\ SumBins(img) =
                   Cardinality(PassingEnergy(el, last.args[2], last.args[3]))
            /\ 10 * img.nx = 2 * el.parameters["pix_center"][1] - 10
            /\ 10 * img.ny = 2 * el.parameters["pix_center"][2] - 10

\* C15: when emin and emax span every event energy the counts of the
\* spectrum sum to num_events, and in every mode each COUNT_RATE is the
\* count divided by the exposure time.
C15_SpectrumCountsEveryEvent ==
    last.op = "write_spectrum" =>
        LET el == last.args[1]
            eobs == FieldOf(el.events, "eobs")
            spans == \A k \in 1..el.num_events :
                         /\ RLe(RInt(last.args[3]), eobs[k])
                         /\ RLe(eobs[k], RInt(last.args[4]))
            t == last.out.v
        IN  /\ spans => SumSeq(t.COUNTS) = el.num_events
            /\ Len(t.COUNT_RATE) = Len(t.COUNTS)
            /\ \A n \in 1..Len(t.COUNTS) :
                   t.COUNT_RATE[n][1] * el.parameters["ExposureTime"] =
                       t.COUNTS[n] * t.COUNT_RATE[n][2]
C15_Witness ==
    /\ last.op = "write_spectrum"
    /\ last.out.v.spectype = "energy"
    /\ last.args[1].num_events = MaxEvents
    /\ FieldOf(last.args[1].events, "eobs")[MaxEvents] = RInt(last.args[4])
    /\ SumSeq(last.out.v.COUNTS) = MaxEvents

\* el is a with nothing but sky coordinates added: the same parameters and
\* num_events, and every field of a with a's values
SameButSky(el, a) ==
    /\ el.parameters = a.parameters
    /\ el.num_events = a.num_events
    /\ el.wcs = a.wcs
    /\ Keys(el.events) \ {"xsky", "ysky"} = Keys(a.events) \ {"xsky", "ysky"}
    /\ \A key \in Keys(a.events) :
           key \in Keys(el.events)
             /\ FieldOf(el.events, key) = FieldOf(a.events, key)
\* the sky coordinate of a pixel coordinate given in tenths of a pixel
SkyOf(wcs, pix, ax) ==
    RAdd(RInt(wcs.crval[ax]), RMul(wcs.cdelt[ax], Rat(pix - wcs.crpix[ax], 10)))

\* C16: an EventList read from a file stores no xsky and no ysky; the first
\* read of either computes both from xpix and ypix, num_events values each,
\* and stores them; a later read returns what is stored and computes
\* nothing; no read changes another field, the parameters or num_events.
C16_SkyLazyAndCached ==
    /\ last.op = "from_h5_file" =>
           Keys(last.out.v.events) \cap {"xsky", "ysky"} = {}
    /\ last.op = "__getitem__" =>
           LET a == last.args[1]
               key == last.args[2]
           IN  \E i \in 1..Len(evl) :
                   /\ SameButSky(evl[i], a)
                   /\ key \notin {"xsky", "ysky"} =>
                          evl[i] = a /\ last.calls = <<>>
                   /\ key \in {"xsky", "ysky"} =>
                          /\ {"xsky", "ysky"} \subseteq Keys(evl[i].events)
                          /\ last.out =
                                 Returned("array", FieldOf(evl[i].events, key))
                          /\ IF "xsky" \in Keys(a.events)
                             THEN evl[i] = a /\ last.calls = <<>>
                             ELSE /\ last.calls = <<"wcs_pix2world">>
                                  /\ FieldOf(evl[i].events, "xsky") =
                                       [k \in 1..a.num_events |->
                                          SkyOf(a.wcs,
                                                FieldOf(a.events, "xpix")[k], 1)]
                                  /\ FieldOf(evl[i].events, "ysky") =
                                       [k \in 1..a.num_events |->
                                          SkyOf(a.wcs,
                                                FieldOf(a.events, "ypix")[k], 2)]
C16_Witness ==
    /\ last.op = "__getitem__"
    /\ last.args[2] = "ysky"
    /\ "xsky" \in Keys(last.args[1].events)
    /\ last.args[1].num_events = MaxEvents
    /\ last.out.tag = "array"
    /\ last.calls = <<>>

\* C17: the EventList that __add__ or filter_events returns shares no
\* mutable storage with its operands: its events dictionary, its field
\* arrays and its parameters dictionary are objects of its own.
C17_NoSharedStorage ==
    (last.op \in {"__add__", "filter_events"} /\ last.out.tag = "EventList")
        => last.shared = {}

\* C18: project_photons only reads the PhotonList: at every point of a call
\* the photons arrays, the parameters and p_bins of every worker are what
\* they were when the call began.
C18_PhotonListOnlyRead ==
    \A r \in Ranks :
        /\ plist[r].photons = plist0[r].photons
        /\ plist[r].parameters = plist0[r].parameters
        /\ plist[r].p_bins = plist0[r].p_bins
        /\ plist[r].num_cells = plist0[r].num_cells
C18_Witness ==
    /\ pc[0] = "done"
    /\ result[0].tag = "EventList"
    /\ result[0].v.num_events > 0
    /\ ~IsNone(args.redshift_new)
    /\ ScaleFactor(0) # RInt(1)
    /\ args.no_shifting

\* a field of the local events dictionaries of the workers from r on, one
\* after the other in rank order
RECURSIVE LocalFrom(_, _)
LocalFrom(key, r) ==
    IF r >= size THEN <<>>
    ELSE FieldOf(loc[r].events, key) \o LocalFrom(key, r + 1)

\* C19: the collective merge hands every worker, field by field, the local
\* sequences of all workers one after the other in rank order, so the merged
\* length is the sum of the local lengths, rows stay aligned across the
\* fields and a worker without events adds nothing; with one worker the
\* result is the local dictionary as it is.
C19_MergeConcatenatesByRank ==
    \A r \in Ranks :
        pc[r] = "done" =>
            /\ Keys(result[r].v.events) = Keys(loc[r].events)
            /\ \A key \in Keys(loc[r].events) :
                   FieldOf(result[r].v.events, key) = LocalFrom(key, 0)
            /\ size = 1 => result[r].v.events = loc[r].events
C19_Witness ==
    /\ size > 1
    /\ \A r \in Ranks : pc[r] = "done"
    /\ \E q \in Ranks : FieldOf(loc[q].events, "xpix") = <<>>
    /\ \E q \in Ranks : Len(FieldOf(loc[q].events, "xpix")) > 1
    /\ result[0].v.num_events > 1

\* the photon file of a run, an array of the workers' PhotonLists taken one
\* worker after the other from r on, and the bounds the specification
\* states for the emitter range of a worker
PhotonFile == CHOOSE f \in disk : TRUE
RECURSIVE PhotonsFrom(_, _)
PhotonsFrom(name, r) ==
    IF r >= size THEN <<>>
    ELSE plist0[r].photons[name] \o PhotonsFrom(name, r + 1)
RangeStart(r) == (r * Len(PhotonFile.d.x)) \div size

\* C20: from_file gives worker rank the emitters rank*num_cells//size up to,
\* not including, (rank+1)*num_cells//size; the ranges are disjoint, follow
\* one another and cover every emitter, so do the energy ranges for the
\* photons, and a worker's Energy holds as many values as its
\* NumberOfPhotons sum to.
C20_FromFilePartitions ==
    LET d == PhotonFile.d
    IN  /\ \A r \in Ranks :
               /\ plist0[r].num_cells = RangeStart(r + 1) - RangeStart(r)
               /\ \A k \in 1..plist0[r].num_cells :
                      /\ plist0[r].photons.NumberOfPhotons[k] =
                             d.num_photons[RangeStart(r) + k]
                      /\ plist0[r].photons.x[k] = d.x[RangeStart(r) + k]
                      /\ plist0[r].photons.vx[k] = d.vx[RangeStart(r) + k]
               /\ Len(plist0[r].photons.Energy) =
                      SumSeq(plist0[r].photons.NumberOfPhotons)
        /\ RangeStart(0) = 0
        /\ RangeStart(size) = Len(d.x)
        /\ PhotonsFrom("Energy", 0) = d.energy
        /\ PhotonsFrom("NumberOfPhotons", 0) = d.num_photons
        /\ \A name \in {"x", "y", "z", "dx", "vx", "vy", "vz"} :
               PhotonsFrom(name, 0) = d[name]
C20_Witness ==
    /\ size > 1
    /\ Len(PhotonFile.d.x) % size # 0
    /\ \E r \in Ranks : plist0[r].num_cells = 0
    /\ \E r \in Ranks : Len(plist0[r].photons.Energy) > 1

\* C21: the redshift override and the distance override exclude each other:
\* a project_photons call given both redshift_new and dist_new is rejected,
\* no worker returns an EventList.
C21_BothOverridesRejected ==
    (~IsNone(args.redshift_new) /\ ~IsNone(args.dist_new)) =>
        \A r \in Ranks : result[r].tag # "EventList" /\ pc[r] # "done"

\* the file a merge_files call wrote, the name of the exposure time in a
\* file, and the rows of the input files before file i in a field
Written == CHOOSE f \in disk : f.name = last.args.output_file
ExposureKey(f) ==
    CHOOSE k \in DOMAIN f.parameters : k \in {"exp_time", "fid_exp_time"}
RowsBefore(files, i, k) ==
    SumOver(1..(i - 1), [j \in 1..(i - 1) |-> Len(files[j].data[k])])

C30_MergeKeepsParameterNames ==
    /\ (last.op = "merge_files" /\ last.out.tag # "raise") =>
           DOMAIN Written.parameters
               = DOMAIN last.args.input_files[1].parameters
    /\ (/\ last.op = "from_file"
        /\ last.args.name = "merged.h5"
        /\ "energy" \in DOMAIN last.args.data) =>
           last.out.tag # "raise"

\* C27: convolve_with_psf returns a new EventList with the num_events and
\* the energies of the original, whose xpix and ypix are the original's plus
\* the offsets of the PSF, and leaves the original's xpix and ypix as they
\* were, for a PSF given as a width and for one given as a function.
C27_ConvolveReturnsShiftedCopy ==
    last.op = "convolve_with_psf" =>
        LET self == last.args[1]
            psf == last.args[2]
            out == last.out
        IN  /\ out.tag = "EventList"
            /\ out.v.num_events = self.num_events
            /\ FieldOf(out.v.events, "eobs") = FieldOf(self.events, "eobs")
            /\ psf.tag = "function" =>
                   \A key \in {"xpix", "ypix"} :
                       \A k \in 1..self.num_events :
                           FieldOf(out.v.events, key)[k]
                               = FieldOf(self.events, key)[k]
                                   + psf.offset[self.num_events][k]
            /\ \E i \in 1..Len(evl) : evl[i] = self

\* what worker q contributes and what it draws, computed from the
\* PhotonList as read, the arguments and the outcomes of its generator alone
LocalOutcome(q) ==
    LET pl == plist0[q]
        idxs == select_idxs(pl, args, prng[q].perm)
        cells == obs_cells_of(pl.p_bins, idxs)
        sky == sky_positions(pl, args, cells, prng[q].raw)
        eobs == eobs_of(pl, args, idxs, cells)
        detected ==
            logical_and(not_abs_of(args, eobs, prng[q].u),
                        arf_detected_of(arf_parameters(args), eobs, prng[q].det))
    IN  local_events(pl, sky[1], sky[2], eobs, detected)
RECURSIVE OutcomeFrom(_, _, _)
OutcomeFrom(outs, key, q) ==
    IF q >= size THEN <<>>
    ELSE FieldOf(outs[q], key) \o OutcomeFrom(outs, key, q + 1)
DrawsOf(q) ==
    (IF DrawsPermutation(plist0[q], args) THEN <<"permutation">> ELSE <<>>)
      \o [k \in 1..PositionDraws(args) |->
             IF plist0[q].parameters.DataType = "cells" THEN "uniform"
             ELSE "normal"]
      \o (IF IsNone(args.absorb_model) THEN <<>> ELSE <<"uniform">>)
      \o (IF "ARF" \in DOMAIN arf_parameters(args) THEN <<"detect_events">>
          ELSE <<>>)

C24_CollectivesInOrder ==
    /\ [](\A r \in Ranks :
             /\ ~IsNone(comm.merge[r]) => ~IsNone(comm.allreduce[r])
             /\ pc[r] \in {"begin", "raised", "allreduce"} =>
                    IsNone(comm.allreduce[r])
             /\ pc[r] \notin {"begin", "raised", "allreduce", "in_allreduce"} =>
                    \A q \in Ranks : ~IsNone(comm.allreduce[q])
             /\ pc[r] = "done" =>
                    /\ result[r].tag = "EventList"
                    /\ \A q \in Ranks : ~IsNone(comm.merge[q])
             /\ pc[r] # "done" => IsNone(result[r]))
    /\ [][\A r \in Ranks :
             /\ ~IsNone(comm.allreduce[r]) =>
                    /\ comm'.allreduce[r] = comm.allreduce[r]
                    /\ pc'[r] \notin {"begin", "raised", "allreduce"}
             /\ ~IsNone(comm.merge[r]) =>
                    /\ comm'.merge[r] = comm.merge[r]
                    /\ pc'[r] \in {"in_merge", "done"}
             /\ (IsNone(comm.allreduce[r]) /\ ~IsNone(comm'.allreduce[r])) =>
                    pc[r] = "allreduce" /\ pc'[r] = "in_allreduce"
             /\ (IsNone(comm.merge[r]) /\ ~IsNone(comm'.merge[r])) =>
                    pc[r] = "merge" /\ pc'[r] = "in_merge"]_vars

\* a worker waits in the merge while another has not entered it
C24_Witness ==
    /\ size = 2
    /\ pc[0] = "in_merge"
    /\ IsNone(comm.merge[1])
    /\ ~IsNone(comm.allreduce[1])

\* the target count of a worker as the specification states it, and the sum
\* of the target counts of all workers
Target(r) ==
    LET f == Fraction(r) IN (TotalPhotons(r) * f[1]) \div f[2]
TargetSum == SumOver(Ranks, [q \in Ranks |-> Target(q)])

\* C25: the selection of a worker is local: its target count is
\* floor(local n_ph_tot * fraction), and the indices it selects are fixed by
\* its own partition and its own generator; the globally summed count is
\* logged by the root worker and changes no selection; with no absorption
\* model and no response the merged EventList holds exactly the sum over the
\* workers of floor(local n_ph_tot * fraction) events.
C25_SelectionIsLocal ==
    \A r \in Ranks :
        /\ Selected(r) =>
               LET target == Target(r)
               IN  /\ loc[r].my_n_obs = target
                   /\ loc[r].idxs =
                          IF target = TotalPhotons(r)
                          THEN [k \in 1..target |-> k - 1]
                          ELSE [k \in 1..target |-> prng[r].perm[k]]
                   /\ r = 0 => \E i \in 1..Len(mylog[r]) :
                                   /\ mylog[r][i].msg = "info: photons to use"
                                   /\ mylog[r][i] =
                                          Log("info: photons to use", TargetSum)
        /\ (/\ pc[r] = "done"
            /\ IsNone(args.absorb_model)
            /\ args.area_new.tag # "arf") =>
               result[r].v.num_events = TargetSum

\* two workers have returned from a call at a fraction below 1 in which the
\* sum of the local target counts is below the target count of the whole
\* sample
C25_Witness ==
    /\ size = 2
    /\ \A r \in Ranks : pc[r] = "done" /\ RLt(Fraction(r), RInt(1))
    /\ IsNone(args.absorb_model)
    /\ TargetSum < ((TotalPhotons(0) + TotalPhotons(1)) * Fraction(0)[1])
                       \div Fraction(0)[2]
    /\ result[0].v.num_events = TargetSum

C28_BudgetCheckIsCollective ==
    \A r \in Ranks :
        /\ \A q \in Ranks : plist0[r].parameters = plist0[q].parameters
        /\ pc[r] # "begin" =>
               (pc[r] = "raised" <=> RLt(RInt(1), Fraction(r)))
        /\ pc[r] = "raised" =>
               \A q \in Ranks :
                   /\ pc[q] \in {"begin", "raised"}
                   /\ IsNone(comm.allreduce[q])
                   /\ IsNone(comm.merge[q])

\* two workers, one with photons and one without, have both raised
C28_Witness ==
    /\ size = 2
    /\ \A r \in Ranks : pc[r] = "raised"
    /\ \E r, q \in Ranks : TotalPhotons(r) = 0 /\ TotalPhotons(q) >= 2

\* C29: in every call that gets past the budget check, on every worker,
\* 0 <= events contributed <= target count <= n_ph_tot, and a photon gives
\* at most one event: the selected indices are as many as the target count,
\* pairwise distinct and within the worker's photons, and the events are the
\* selected photons that pass the mask; whatever the overrides, with or
\* without absorption model and response, for a worker without photons too.
C29_EventCountBounded ==
    \A r \in Ranks :
        Attenuated(r) =>
            LET n_events == Len(FieldOf(loc[r].events, "xpix"))
                idxs == loc[r].idxs
            IN  /\ 0 <= n_events
                /\ n_events <= loc[r].my_n_obs
                /\ loc[r].my_n_obs <= TotalPhotons(r)
                /\ Len(idxs) = loc[r].my_n_obs
                /\ \A i, j \in 1..Len(idxs) : i # j => idxs[i] # idxs[j]
                /\ \A i \in 1..Len(idxs) :
                       0 <= idxs[i] /\ idxs[i] < TotalPhotons(r)
                /\ n_events =
                       Cardinality({k \in 1..Len(idxs) : loc[r].detected[k]})
                /\ \A key \in {"ypix", "eobs"} :
                       Len(FieldOf(loc[r].events, key)) = n_events

\* a worker kept fewer photons than it holds and lost one of those to the
\* absorption
C29_Witness ==
    \E r \in Ranks :
        /\ Attenuated(r)
        /\ ~IsNone(args.absorb_model)
        /\ Len(FieldOf(loc[r].events, "xpix")) < loc[r].my_n_obs
        /\ loc[r].my_n_obs < TotalPhotons(r)

====
